---- MODULE Spec2Model ----
(***************************************************************************)
(* Course-equivalency case tracking.                                       *)
(*                                                                         *)
(* Spec        : the in-memory service layer (services/store.js and the    *)
(*               api.js that drives it): submitNewCase,                    *)
(*               submitAdditionalInfo, submitReviewerDecision.            *)
(*               With PanelConfirm, the reviewer panel in front of it.     *)
(* SpecBackend : the relational store of Database/db_schema.sql behind the *)
(*               /api endpoints, with the case state machine, run tracker  *)
(*               and review ledger of the design document on top of it.    *)
(* SpecEvidence: the citation / evidence grounding model over the same     *)
(*               store.                                                    *)
(* SpecDisplay : fetchCase of services/api.js (mapCaseDetail, buildLogs)   *)
(*               applied to the bodies the detail endpoint answers with.   *)
(* SpecUpload  : upload requests to one case whose handlers interleave.    *)
(* SpecLog     : the audit log from the response body to the timeline the  *)
(*               pages render (buildLogs, AuditLogTimeline).               *)
(* SpecFetch   : SpecBackend with one read of the latest decision result   *)
(*               through fetchDecisionResult of services/api.js.           *)
(* SpecDelete  : deletion of decision runs under the foreign keys of       *)
(*               Database/db_schema.sql.                                   *)
(* SpecPanel   : the ReviewerActionPanel component under clicks and edits. *)
(* SpecForms   : the upload forms of StudentNewCase and StudentCaseView.   *)
(* SpecSession : login, links and browser history over RequireAuth and the *)
(*               student pages.                                            *)
(***************************************************************************)
EXTENDS Integers, Sequences, FiniteSets, TLC

(***************************************************************************)
(* Bounds of the model.                                                    *)
(***************************************************************************)
MaxCalls == 2        \* service calls made in one behaviour of Spec
MaxFiles == 1        \* files handed to one upload call
MaxCases == 3        \* cases held by the in-memory store
MaxRuns == 2         \* rows of extraction_runs
MaxDecisionRuns == 2 \* rows of decision_runs
MaxLedger == 2       \* rows of review_actions
MaxDocs == 2         \* rows of documents
MaxUploaders == 2    \* upload requests to one case in flight at once

(***************************************************************************)
(* State.                                                                  *)
(***************************************************************************)
VARIABLES
  cases,      \* store.js: let cases = clone(mockCases), the array of case objects
  last,       \* the last service call: its arguments, the status before it, what it returned
  nCalls      \* number of service calls made so far

VARIABLES
  requests,          \* table requests: row i is the request with request_id i
  documents,         \* table documents
  extraction_runs,   \* table extraction_runs: row i has extraction_run_id i
  decision_runs,     \* table decision_runs
  decision_results,  \* table decision_results, keyed by decision_run_id
  review_actions,    \* table review_actions, in insertion order
  tx,                \* the open transaction of a run-completion report, or NoTx
  resp               \* the response to the last call of a student or reviewer endpoint

VARIABLES
  citation_chunks,     \* table citation_chunks: row i has chunk_uuid i
  grounded_evidence,   \* table grounded_evidence: row i has evidence_id i
  evidence_citations,  \* table evidence_citations: the set of (evidence_id, chunk_uuid) rows
  ev_last              \* the last call of the grounding model: its arguments and its outcome

VARIABLES
  body,       \* the body GET /api/cases/:id answered with
  shown       \* what fetchCase handed to the page: <<>> before the fetch, <<detail>> after

VARIABLES
  up          \* the upload requests in flight: for each, where its handler stands and its files

VARIABLES
  ui          \* the React state of the mounted page or component, <<>> when none is

storeVars == <<cases, last, nCalls>>
dbVars == <<requests, documents, extraction_runs, decision_runs, decision_results, review_actions>>
backendVars == <<requests, documents, extraction_runs, decision_runs, decision_results,
                 review_actions, tx, resp>>
evidenceVars == <<citation_chunks, grounded_evidence, evidence_citations, ev_last>>
displayVars == <<body, shown>>
vars == <<cases, last, nCalls, requests, documents, extraction_runs, decision_runs,
          decision_results, review_actions, tx, resp,
          citation_chunks, grounded_evidence, evidence_citations, ev_last, body, shown, up, ui>>

(***************************************************************************)
(* Values.                                                                 *)
(***************************************************************************)
NoComment == "<undefined>"      \* a case object without a reviewer_comment property
NoCase == 0                     \* an id no case of the store carries

\* the statuses of the section 4.1 state machine, as the frontend spells them
Statuses == {"UPLOADED", "EXTRACTING", "READY_FOR_DECISION", "AI_RECOMMENDATION",
             "REVIEW_PENDING", "NEEDS_INFO", "REVIEWED"}

\* the edges of the section 4.1 transition table
Edges == {<<"UPLOADED", "EXTRACTING">>,
          <<"EXTRACTING", "READY_FOR_DECISION">>,
          <<"READY_FOR_DECISION", "AI_RECOMMENDATION">>,
          <<"READY_FOR_DECISION", "NEEDS_INFO">>,
          <<"AI_RECOMMENDATION", "REVIEW_PENDING">>,
          <<"REVIEW_PENDING", "REVIEWED">>,
          <<"REVIEW_PENDING", "NEEDS_INFO">>,
          <<"NEEDS_INFO", "EXTRACTING">>}

\* the action values the reviewer panel passes to onAction, and "OVERRIDE"
ActionInputs == {"APPROVE", "DENY", "REQUEST_INFO", "OVERRIDE"}

\* reviewer comments: empty, whitespace-only, and a real one
Comments == {"", " ", "need syllabus"}

\* String.prototype.trim on the comments above
Trim(s) == IF s = " " THEN "" ELSE s

\* JavaScript truthiness of a string: only the empty string is falsy
Truthy(s) == s # ""

\* String.prototype.toLowerCase / toUpperCase on the action values and on the
\* extensions of file names
ToLowerCase(a) ==
  CASE a = "APPROVE" -> "approve"
    [] a = "PDF" -> "pdf"
    [] a = "DENY" -> "deny"
    [] a = "REQUEST_INFO" -> "request_info"
    [] a = "OVERRIDE" -> "override"
    [] OTHER -> a

ToUpperCase(a) ==
  CASE a = "approve" -> "APPROVE"
    [] a = "deny" -> "DENY"
    [] a = "request_info" -> "REQUEST_INFO"
    [] a = "override" -> "OVERRIDE"
    [] OTHER -> a

\* file names a student can pick
FileNames == {"syllabus.pdf", "notes.txt"}

RECURSIVE SeqsUpTo(_, _)
SeqsUpTo(S, n) ==
  IF n = 0 THEN {<<>>}
  ELSE LET shorter == SeqsUpTo(S, n - 1)
       IN shorter \cup {Append(s, x) : s \in {t \in shorter : Len(t) = n - 1}, x \in S}

\* the file lists of one upload call
FileLists == SeqsUpTo([name : FileNames], MaxFiles)

(***************************************************************************)
(* mock/data.js: the six seeded cases (id n stands for "CASE-00n"), each   *)
(* with the UTC ID of its student.  Log                                    *)
(* entries keep actor, action and the part of the message the code builds  *)
(* from its inputs.  A timestamp is a number of milliseconds: the seeded   *)
(* entries of a case carry increasing timestamps, all in the past.         *)
(***************************************************************************)
Doc(id, name) == [id |-> id, name |-> name]
Log(timestamp, actor, action, message) ==
  [timestamp |-> timestamp, actor |-> actor, action |-> action, message |-> message]

SeedLogs(finalStatus) ==
  << Log(1, "STUDENT", "UPLOAD", <<"seed">>),
     Log(2, "AGENT", "EXTRACT", <<"seed">>),
     Log(3, "AGENT", "DECIDE", <<"seed">>),
     Log(4, "AGENT", "STATUS_CHANGE", <<"changed", finalStatus>>) >>

mockCases ==
  << [id |-> 1, student_id |-> "alj001", status |-> "REVIEW_PENDING",
      documents |-> <<Doc(<<"doc", 1>>, "UTC_Transcript.pdf"), Doc(<<"doc", 2>>, "CPSC301_Syllabus.pdf")>>,
      logs |-> SeedLogs("REVIEW_PENDING"), reviewer_comment |-> NoComment],
     [id |-> 2, student_id |-> "bom002", status |-> "NEEDS_INFO",
      documents |-> <<Doc(<<"doc", 3>>, "Transfer_Transcript.pdf")>>,
      logs |-> SeedLogs("NEEDS_INFO"), reviewer_comment |-> NoComment],
     [id |-> 3, student_id |-> "cad003", status |-> "REVIEWED",
      documents |-> <<Doc(<<"doc", 4>>, "CC_Transcript.pdf"), Doc(<<"doc", 5>>, "CS101_Syllabus.pdf")>>,
      logs |-> SeedLogs("REVIEW_PENDING")
               \o << Log(5, "REVIEWER", "APPROVE", <<"approved", "Straightforward equivalency. Approved.">>),
                     Log(6, "AGENT", "STATUS_CHANGE", <<"changed", "REVIEWED">>) >>,
      reviewer_comment |-> "Straightforward equivalency. Approved."],
     [id |-> 4, student_id |-> "dak004", status |-> "REVIEW_PENDING",
      documents |-> <<Doc(<<"doc", 6>>, "University_Transcript.pdf"), Doc(<<"doc", 7>>, "NET300_Syllabus.pdf"),
                      Doc(<<"doc", 8>>, "NET300_LabManual.pdf")>>,
      logs |-> SeedLogs("REVIEW_PENDING"), reviewer_comment |-> NoComment],
     [id |-> 5, student_id |-> "emw005", status |-> "UPLOADED",
      documents |-> <<Doc(<<"doc", 9>>, "State_University_Transcript.pdf")>>,
      logs |-> << Log(1, "STUDENT", "UPLOAD", <<"seed">>) >>, reviewer_comment |-> NoComment],
     [id |-> 6, student_id |-> "frc006", status |-> "DECIDED",
      documents |-> <<Doc(<<"doc", 10>>, "Bootcamp_Certificate.pdf"), Doc(<<"doc", 11>>, "Bootcamp_Curriculum.pdf")>>,
      logs |-> SeedLogs("DECIDED"), reviewer_comment |-> NoComment] >>

(***************************************************************************)
(* services/store.js.  Each function is an operator from the array of      *)
(* cases to the array after the call.                                      *)
(***************************************************************************)
\* cases.find((c) => c.id === caseId): index of the first match, 0 when there is none
Find(cs, caseId) ==
  LET hits == {i \in 1..Len(cs) : cs[i].id = caseId}
  IN IF hits = {} THEN 0 ELSE CHOOSE i \in hits : \A j \in hits : i <= j

\* getCaseById: the case, or null
getCaseById(cs, caseId) ==
  IF Find(cs, caseId) = 0 THEN "null" ELSE cs[Find(cs, caseId)]

\* updateCaseStatus: if (c) c.status = newStatus
updateCaseStatus(cs, caseId, newStatus) ==
  LET i == Find(cs, caseId)
  IN IF i = 0 THEN cs ELSE [cs EXCEPT ![i].status = newStatus]

\* addLogEntry: if (c) c.logs.push(entry)
addLogEntry(cs, caseId, entry) ==
  LET i == Find(cs, caseId)
  IN IF i = 0 THEN cs ELSE [cs EXCEPT ![i].logs = Append(@, entry)]

\* setReviewerComment: if (c) c.reviewer_comment = comment
setReviewerCommentDropped(cs, caseId, comment) == cs
setReviewerComment(cs, caseId, comment) ==
  LET i == Find(cs, caseId)
  IN IF i = 0 THEN cs ELSE [cs EXCEPT ![i].reviewer_comment = comment]

\* addDocument: if (c) c.documents.push(doc)
addDocument(cs, caseId, doc) ==
  LET i == Find(cs, caseId)
  IN IF i = 0 THEN cs ELSE [cs EXCEPT ![i].documents = Append(@, doc)]

\* createCase: cases.push(newCase)
createCase(cs, newCase) == Append(cs, newCase)

\* a numbering by the size of the store instead of by the largest number in it
nextCaseIdByCount(cs) == Len(cs) + 1

\* nextCaseId: one more than the largest case number, 1 for an empty store
nextCaseId(cs) ==
  LET nums == {cs[i].id : i \in 1..Len(cs)} \cup {0}
  IN (CHOOSE m \in nums : \A n \in nums : n <= m) + 1

(***************************************************************************)
(* The api.js that drives the in-memory store.                             *)
(***************************************************************************)
\* files.map / files.forEach over the file list, left to right
RECURSIVE PushDocuments(_, _, _, _)
PushDocuments(cs, caseId, files, i) ==
  IF i > Len(files) THEN cs
  ELSE PushDocuments(addDocument(cs, caseId, Doc(<<"doc", caseId, "extra", i - 1>>, files[i].name)),
                    caseId, files, i + 1)

\* submitNewCase: a new case object in status UPLOADED, pushed onto the store
NewCase(cs, studentId, files, now) ==
  [id |-> nextCaseId(cs), student_id |-> studentId, status |-> "UPLOADED",
   documents |-> [i \in 1..Len(files) |-> Doc(<<"doc", nextCaseId(cs), i - 1>>, files[i].name)],
   logs |-> << Log(now, "STUDENT", "UPLOAD", <<"uploaded", Len(files)>>) >>,
   reviewer_comment |-> NoComment]

SubmitNewCaseResult(cs, studentId, files, now) ==
  createCase(cs, NewCase(cs, studentId, files, now))

\* submitAdditionalInfo: push the documents, log the upload at now, flip the status, log
\* the flip at Date.now() + 1
SubmitAdditionalInfoResult(cs, caseId, files, now) ==
  LET s1 == PushDocuments(cs, caseId, files, 1)
      s2 == addLogEntry(s1, caseId, Log(now, "STUDENT", "UPLOAD", <<"submitted", Len(files)>>))
      s3 == updateCaseStatus(s2, caseId, "EXTRACTING")
  IN addLogEntry(s3, caseId, Log(now + 1, "AGENT", "STATUS_CHANGE", <<"changed", "EXTRACTING">>))

\* submitReviewerDecision: log the action, keep the comment, set the status, log the change
ReviewMessage(action, comment) ==
  IF action = "REQUEST_INFO" THEN <<"requested", comment>>
  ELSE IF Truthy(comment) THEN <<ToLowerCase(action), "d", comment>>
  ELSE <<ToLowerCase(action), "d">>

ReviewNewStatus(action) == IF action = "REQUEST_INFO" THEN "NEEDS_INFO" ELSE "REVIEWED"

SubmitReviewerDecisionResult(cs, caseId, action, comment, now) ==
  LET s1 == addLogEntry(cs, caseId, Log(now, "REVIEWER", ToUpperCase(action), ReviewMessage(action, comment)))
      s2 == IF Truthy(comment) THEN setReviewerComment(s1, caseId, comment) ELSE s1
      s3 == updateCaseStatus(s2, caseId, ReviewNewStatus(action))
  IN addLogEntry(s3, caseId, Log(now + 1, "AGENT", "STATUS_CHANGE", <<"changed", ReviewNewStatus(action)>>))

\* what a caller gets back: these functions return the case object or null and never throw
Returned(cs, caseId) == IF Find(cs, caseId) = 0 THEN "null" ELSE "case"

\* the status of a case before a call, "absent" when no case carries the id
StatusOf(cs, caseId) == IF Find(cs, caseId) = 0 THEN "absent" ELSE cs[Find(cs, caseId)].status

CaseIds(cs) == {cs[i].id : i \in 1..Len(cs)}

NoCall == [op |-> "none", via |-> "none", caseId |-> NoCase, action |-> "", comment |-> "", nFiles |-> 0,
           pre |-> "absent", returned |-> "none", before |-> <<>>, now |-> 7]

\* new Date() at the start of a call: the millisecond of the previous call or a later one
\* (the first call is made after every seeded entry)
Clock(previous) == {previous.now, previous.now + 1}

(***************************************************************************)
(* Database/db_schema.sql: the relational store.  request_id,              *)
(* extraction_run_id, decision_run_id are the row numbers of their tables  *)
(* (gen_random_uuid() keys: fresh, never reused).  Rows keep the columns   *)
(* the operations read or write; created_at is the insertion order.        *)
(***************************************************************************)
\* requests.status CHECK (status IN (...))
RequestStatuses == {"uploaded", "extracting", "ready_for_decision", "needs_info",
                    "ai_recommendation", "review_pending", "reviewed"}

\* extraction_runs.status / decision_runs.status CHECK (status IN (...))
RunStatuses == {"queued", "running", "completed", "failed"}

\* review_actions.action CHECK (action IN (...))
ReviewActionKinds == {"approve", "deny", "request_info", "override"}

NoRequest == 0        \* a request_id no row carries
NoRun == 0            \* review_actions.decision_run_id IS NULL
NoError == ""         \* error_message IS NULL
NoTx == [kind |-> "none", run |-> 0, needs |-> FALSE, done |-> 0]

ErrorMessages == {"pipeline crashed", "timeout"}

RequestRow(status) == [status |-> status]
DocumentRow(request_id, filename, is_active) ==
  [request_id |-> request_id, filename |-> filename, content_type |-> "application/pdf",
   is_active |-> is_active]
RunRow(run_id, request_id, status, error_message) ==
  [run_id |-> run_id, request_id |-> request_id, status |-> status,
   error_message |-> error_message]

\* extraction_run_id / decision_run_id UUID PRIMARY KEY DEFAULT gen_random_uuid():
\* a key no row of the table carries yet
NewRunIdReused(runs) == 1
NewRunId(runs) == Len(runs) + 1
ResultRow(decision_run_id, needs_more_info, missing_fields) ==
  [decision_run_id |-> decision_run_id, needs_more_info |-> needs_more_info,
   missing_fields |-> missing_fields]
ReviewActionRow(request_id, action, comment, decision_run_id) ==
  [request_id |-> request_id, action |-> action, comment |-> comment,
   decision_run_id |-> decision_run_id]

Max(S) == CHOOSE m \in S : \A n \in S : n <= m

RequestIds == 1..Len(requests)
RunsOf(runs, c) == {r \in 1..Len(runs) : runs[r].request_id = c}
\* the run a case is waiting on: its most recently created one
CurrentRun(runs, c) == IF RunsOf(runs, c) = {} THEN NoRun ELSE Max(RunsOf(runs, c))
ActiveRuns(runs, c) == {r \in RunsOf(runs, c) : runs[r].status \in {"queued", "running"}}
LatestCompleted(runs, c) ==
  LET done == {r \in RunsOf(runs, c) : runs[r].status = "completed"}
  IN IF done = {} THEN NoRun ELSE Max(done)

DocsOf(docs, c) == {d \in 1..Len(docs) : docs[d].request_id = c}
RunIds(runs) == {runs[r].run_id : r \in 1..Len(runs)}

IsPdf(name) == name \in {"syllabus.pdf"}

Response(op, c, outcome) == [op |-> op, request_id |-> c, outcome |-> outcome]

\* the rows a transaction in progress holds locked
Locked(c) == tx.kind # "none" /\
  (IF tx.kind = "extraction" THEN extraction_runs[tx.run].request_id
   ELSE decision_runs[tx.run].request_id) = c

BackendInit ==
  /\ requests = <<>>
  /\ documents = <<>>
  /\ extraction_runs = <<>>
  /\ decision_runs = <<>>
  /\ decision_results = {}
  /\ review_actions = <<>>
  /\ tx = NoTx
  /\ resp = Response("none", NoRequest, "none")

(***************************************************************************)
(* Spec: the store after construction holds the seeded cases.  The store   *)
(* functions address one case by id and never read another, so a           *)
(* behaviour follows one seeded case and the cases created on top of it.   *)
(***************************************************************************)
NoChunk == 0
NoEvCall == [op |-> "none", unknown |-> FALSE, chunkIds |-> {}, outcome |-> "none", id |-> NoChunk,
             sha |-> <<>>]

EvidenceInit ==
  /\ citation_chunks = <<>>
  /\ grounded_evidence = <<>>
  /\ evidence_citations = {}
  /\ ev_last = NoEvCall

AuditLog(extractionRuns, decisionRuns, reviewActions) ==
  [extractionRuns |-> extractionRuns, decisionRuns |-> decisionRuns,
   reviewActions |-> reviewActions]
CaseDetailBody(caseId, status, docs, auditLog) ==
  [case |-> [caseId |-> caseId, status |-> status], documents |-> docs, auditLog |-> auditLog]

DisplayInit ==
  /\ body = CaseDetailBody(NoRequest, "UPLOADED", <<>>, AuditLog(<<>>, <<>>, <<>>))
  /\ shown = <<>>

\* no upload request has arrived
UploadInit == up = [u \in 1..MaxUploaders |-> [pc |-> "idle", files |-> <<>>]]

\* no page of the frontend is mounted
PageInit == ui = <<>>

StoreInit ==
  /\ \E k \in 1..Len(mockCases) : cases = <<mockCases[k]>>
  /\ last = NoCall
  /\ nCalls = 0

Init == StoreInit /\ BackendInit /\ EvidenceInit /\ DisplayInit /\ UploadInit /\ PageInit

\* the student of the seeded case submits another case (no store function of this
\* specification reads student_id)
SubmitNewCase ==
  \E files \in FileLists, now \in Clock(last) :
    /\ nCalls < MaxCalls
    /\ Len(cases) < MaxCases
    /\ cases' = SubmitNewCaseResult(cases, cases[1].student_id, files, now)
    /\ last' = [op |-> "submitNewCase", via |-> "service", caseId |-> nextCaseId(cases), action |-> "", comment |-> "",
                nFiles |-> Len(files), pre |-> "absent", returned |-> "case", before |-> cases,
                now |-> now]
    /\ nCalls' = nCalls + 1
    /\ UNCHANGED <<backendVars, evidenceVars, displayVars, up, ui>>

SubmitAdditionalInfo ==
  \E caseId \in CaseIds(cases) \cup {NoCase}, files \in FileLists, now \in Clock(last) :
    /\ nCalls < MaxCalls
    /\ cases' = SubmitAdditionalInfoResult(cases, caseId, files, now)
    /\ last' = [op |-> "submitAdditionalInfo", via |-> "service", caseId |-> caseId, action |-> "", comment |-> "",
                nFiles |-> Len(files), pre |-> StatusOf(cases, caseId),
                returned |-> Returned(cases, caseId), before |-> cases, now |-> now]
    /\ nCalls' = nCalls + 1
    /\ UNCHANGED <<backendVars, evidenceVars, displayVars, up, ui>>

SubmitReviewerDecision ==
  \E caseId \in CaseIds(cases) \cup {NoCase}, action \in ActionInputs, comment \in Comments,
     now \in Clock(last) :
    /\ nCalls < MaxCalls
    /\ cases' = SubmitReviewerDecisionResult(cases, caseId, action, comment, now)
    /\ last' = [op |-> "submitReviewerDecision", via |-> "service", caseId |-> caseId,
                action |-> action,
                comment |-> comment, nFiles |-> 0, pre |-> StatusOf(cases, caseId),
                returned |-> Returned(cases, caseId), before |-> cases, now |-> now]
    /\ nCalls' = nCalls + 1
    /\ UNCHANGED <<backendVars, evidenceVars, displayVars, up, ui>>

\* ReviewerActionPanel: the buttons are dead for a case shown as REVIEWED, APPROVED or
\* DENIED, and after a confirmed action
isDisabled(currentStatus, confirmed) ==
  currentStatus \in {"REVIEWED", "APPROVED", "DENIED"} \/ confirmed

\* handleConfirm hands the action on unless it is a request for information with a
\* blank comment
handleConfirmAccepts(selectedAction, comment) ==
  ~(selectedAction = "REQUEST_INFO" /\ Trim(comment) = "")

\* the reviewer picks a button of the panel and confirms: handleActionClick,
\* handleConfirm, and the page's handleAction calling submitReviewerDecision
PanelConfirm ==
  \E caseId \in CaseIds(cases), action \in {"APPROVE", "DENY", "REQUEST_INFO"},
     comment \in Comments, now \in Clock(last) :
    /\ nCalls < MaxCalls
    /\ ~isDisabled(StatusOf(cases, caseId), FALSE)
    /\ handleConfirmAccepts(action, comment)
    /\ cases' = SubmitReviewerDecisionResult(cases, caseId, action, comment, now)
    /\ last' = [op |-> "submitReviewerDecision", via |-> "panel", caseId |-> caseId,
                action |-> action, comment |-> comment, nFiles |-> 0,
                pre |-> StatusOf(cases, caseId), returned |-> Returned(cases, caseId),
                before |-> cases, now |-> now]
    /\ nCalls' = nCalls + 1
    /\ UNCHANGED <<backendVars, evidenceVars, displayVars, up, ui>>

Next == SubmitNewCase \/ SubmitAdditionalInfo \/ SubmitReviewerDecision \/ PanelConfirm

Spec == Init /\ [][Next]_vars

(***************************************************************************)
(* SpecBackend: the write surface behind the /api endpoints and the        *)
(* reports of the extraction and decision workers.                         *)
(***************************************************************************)
ValidFiles(files) == Len(files) >= 1 /\ \A i \in 1..Len(files) : IsPdf(files[i].name)

\* a re-upload of the same logical document marks the earlier record inactive
Supersede(docs, c, files) ==
  [i \in 1..Len(docs) |->
     IF docs[i].request_id = c /\ \E j \in 1..Len(files) : files[j].name = docs[i].filename
     THEN [docs[i] EXCEPT !.is_active = FALSE] ELSE docs[i]]

\* one record per file; of two files of one upload with the same name the later replaces
\* the earlier
InsertDocuments(docs, c, files) ==
  docs \o [j \in 1..Len(files) |->
            DocumentRow(c, files[j].name,
                        ~\E k \in (j + 1)..Len(files) : files[k].name = files[j].name)]

\* POST /api/cases: a request in status uploaded with its first documents.  The model
\* follows one case from its creation: every operation is keyed by one case id and reads
\* and writes the rows of that case only.
CreateCase ==
  \E files \in FileLists :
    /\ requests = <<>>
    /\ Len(documents) + Len(files) <= MaxDocs
    /\ tx = NoTx
    /\ IF ValidFiles(files)
       THEN /\ requests' = Append(requests, RequestRow("uploaded"))
            /\ documents' = InsertDocuments(documents, Len(requests) + 1, files)
       ELSE UNCHANGED <<requests, documents>>
    /\ UNCHANGED <<extraction_runs, decision_runs, decision_results, review_actions, tx, resp>>
    /\ UNCHANGED <<storeVars, evidenceVars, displayVars, up, ui>>

\* the outcome of POST /api/cases/:id/documents
AddDocumentsOutcome(c, files) ==
  IF c \notin RequestIds THEN "NotFound"
  ELSE IF ~ValidFiles(files) THEN "ValidationError"
  ELSE IF requests[c].status = "needs_info" THEN "rerun"
  ELSE IF requests[c].status = "uploaded" THEN "ok"
  ELSE "InvalidTransition"

\* POST /api/cases/:id/documents: from needs_info the case re-enters extracting on a new run
AddDocuments ==
  \E c \in RequestIds \cup {NoRequest}, files \in FileLists :
    /\ ~Locked(c)
    /\ LET outcome == AddDocumentsOutcome(c, files)
       IN /\ outcome \in {"ok", "rerun"} => Len(documents) + Len(files) <= MaxDocs
          /\ outcome = "rerun" => Len(extraction_runs) < MaxRuns
          /\ documents' = IF outcome \in {"ok", "rerun"}
                          THEN InsertDocuments(Supersede(documents, c, files), c, files)
                          ELSE documents
          /\ extraction_runs' =
               IF outcome = "rerun"
               THEN Append(extraction_runs, RunRow(NewRunId(extraction_runs), c, "queued", NoError))
               ELSE extraction_runs
          /\ requests' = IF outcome = "rerun"
                         THEN [requests EXCEPT ![c].status = "extracting"] ELSE requests
    /\ UNCHANGED <<decision_runs, decision_results, review_actions, tx, resp>>
    /\ UNCHANGED <<storeVars, evidenceVars, displayVars, up, ui>>

\* extraction starts: uploaded -> extracting, on a new queued run
StartExtraction ==
  \E c \in RequestIds :
    /\ ~Locked(c)
    /\ requests[c].status = "uploaded"
    /\ Len(extraction_runs) < MaxRuns
    /\ extraction_runs' = Append(extraction_runs, RunRow(NewRunId(extraction_runs), c, "queued", NoError))
    /\ requests' = [requests EXCEPT ![c].status = "extracting"]
    /\ UNCHANGED <<documents, decision_runs, decision_results, review_actions, tx, resp>>
    /\ UNCHANGED <<storeVars, evidenceVars, displayVars, up, ui>>

\* an explicit retry: a case still extracting whose current run failed gets a new run
RetryExtraction ==
  \E c \in RequestIds :
    /\ ~Locked(c)
    /\ requests[c].status = "extracting"
    /\ CurrentRun(extraction_runs, c) # NoRun
    /\ extraction_runs[CurrentRun(extraction_runs, c)].status = "failed"
    /\ Len(extraction_runs) < MaxRuns
    /\ extraction_runs' = Append(extraction_runs, RunRow(NewRunId(extraction_runs), c, "queued", NoError))
    /\ UNCHANGED <<requests, documents, decision_runs, decision_results, review_actions, tx, resp>>
    /\ UNCHANGED <<storeVars, evidenceVars, displayVars, up, ui>>

\* a decision run is queued for a case that is ready for decision and has none in flight
StartDecision ==
  \E c \in RequestIds :
    /\ ~Locked(c)
    /\ requests[c].status = "ready_for_decision"
    /\ ActiveRuns(decision_runs, c) = {}
    /\ Len(decision_runs) < MaxDecisionRuns
    /\ decision_runs' = Append(decision_runs, RunRow(NewRunId(decision_runs), c, "queued", NoError))
    /\ UNCHANGED <<requests, documents, extraction_runs, decision_results, review_actions, tx, resp>>
    /\ UNCHANGED <<storeVars, evidenceVars, displayVars, up, ui>>

(***************************************************************************)
(* Run tracker: queued -> running -> {completed, failed}.                  *)
(***************************************************************************)
RunStepReopens(status, report) ==
  IF status \in {"queued", "failed"} /\ report = "running" THEN "running"
  ELSE IF status = "running" /\ report \in {"completed", "failed"} THEN report
  ELSE status

\* the status a report moves a run to, or the run's status when the report is refused
RunStep(status, report) ==
  IF status = "queued" /\ report = "running" THEN "running"
  ELSE IF status = "running" /\ report \in {"completed", "failed"} THEN report
  ELSE status

RunStepAllowed(status, report) == RunStep(status, report) # status

\* a refused report leaves the row as it is; error_message is set only on failed
ReportedRow(row, report, msg) ==
  IF RunStepAllowed(row.status, report)
  THEN [row EXCEPT !.status = RunStep(row.status, report),
                   !.error_message = IF report = "failed" THEN msg ELSE @]
  ELSE row

\* the worker reports an extraction run running or failed
ReportExtraction ==
  \E r \in 1..Len(extraction_runs), report \in {"running", "failed"}, msg \in ErrorMessages :
    /\ ~Locked(extraction_runs[r].request_id)
    /\ extraction_runs' = [extraction_runs EXCEPT ![r] = ReportedRow(@, report, msg)]
    /\ UNCHANGED <<requests, documents, decision_runs, decision_results, review_actions, tx, resp>>
    /\ UNCHANGED <<storeVars, evidenceVars, displayVars, up, ui>>

\* the worker reports a decision run running or failed
ReportDecision ==
  \E r \in 1..Len(decision_runs), report \in {"running", "failed"}, msg \in ErrorMessages :
    /\ ~Locked(decision_runs[r].request_id)
    /\ decision_runs' = [decision_runs EXCEPT ![r] = ReportedRow(@, report, msg)]
    /\ UNCHANGED <<requests, documents, extraction_runs, decision_results, review_actions, tx, resp>>
    /\ UNCHANGED <<storeVars, evidenceVars, displayVars, up, ui>>

(***************************************************************************)
(* A completion report is one transaction of two statements: mark the run  *)
(* completed (and store the decision result), then flip the case status.   *)
(***************************************************************************)
WritesVisibleAtStatement(point) == point = "statement"

\* the writes of a transaction are seen by others when it commits, not statement by statement
WritesVisibleAt(point) == point = "commit"

RunMarked(runs, r) == [runs EXCEPT ![r] = ReportedRow(@, "completed", NoError)]

MissingFields(needs) == IF needs THEN {"credit_hours"} ELSE {}

\* the status a completion moves the case to
StatusAfter(kind, needs) ==
  IF kind = "extraction" THEN "ready_for_decision"
  ELSE IF needs THEN "needs_info" ELSE "ai_recommendation"

\* the run is running and its case is waiting on it in the status the table asks for
CompletionAllowed(kind, r) ==
  IF kind = "extraction"
  THEN /\ extraction_runs[r].status = "running"
       /\ requests[extraction_runs[r].request_id].status = "extracting"
       /\ CurrentRun(extraction_runs, extraction_runs[r].request_id) = r
  ELSE /\ decision_runs[r].status = "running"
       /\ requests[decision_runs[r].request_id].status = "ready_for_decision"

TxRequest == IF tx.kind = "extraction" THEN extraction_runs[tx.run].request_id
             ELSE decision_runs[tx.run].request_id

\* BEGIN; statement 1: UPDATE the run (and INSERT the decision result).  A report for a
\* run that is not running, or whose case is not waiting on it, is refused.
TxMarkCompleted ==
  \E kind \in {"extraction", "decision"}, needs \in BOOLEAN :
    \E r \in 1..Len(IF kind = "extraction" THEN extraction_runs ELSE decision_runs) :
      /\ tx = NoTx
      /\ kind = "extraction" => ~needs
      /\ IF CompletionAllowed(kind, r)
         THEN /\ tx' = [kind |-> kind, run |-> r, needs |-> needs, done |-> 1]
              /\ IF WritesVisibleAt("statement")
                 THEN /\ extraction_runs' = IF kind = "extraction"
                                            THEN RunMarked(extraction_runs, r)
                                            ELSE extraction_runs
                      /\ decision_runs' = IF kind = "decision"
                                          THEN RunMarked(decision_runs, r) ELSE decision_runs
                      /\ decision_results' = IF kind = "decision"
                                             THEN decision_results \cup
                                                  {ResultRow(r, needs, MissingFields(needs))}
                                             ELSE decision_results
                 ELSE UNCHANGED <<extraction_runs, decision_runs, decision_results>>
         ELSE UNCHANGED <<tx, extraction_runs, decision_runs, decision_results>>
      /\ UNCHANGED <<requests, documents, review_actions, resp>>
      /\ UNCHANGED <<storeVars, evidenceVars, displayVars, up, ui>>

\* statement 2: UPDATE requests SET status; COMMIT
TxCommit ==
  /\ tx.kind # "none" /\ tx.done = 1
  /\ tx' = NoTx
  /\ IF WritesVisibleAt("commit")
     THEN /\ extraction_runs' = IF tx.kind = "extraction"
                                THEN RunMarked(extraction_runs, tx.run) ELSE extraction_runs
          /\ decision_runs' = IF tx.kind = "decision"
                              THEN RunMarked(decision_runs, tx.run) ELSE decision_runs
          /\ decision_results' = IF tx.kind = "decision"
                                 THEN decision_results \cup
                                      {ResultRow(tx.run, tx.needs, MissingFields(tx.needs))}
                                 ELSE decision_results
     ELSE UNCHANGED <<extraction_runs, decision_runs, decision_results>>
  /\ requests' = [requests EXCEPT ![TxRequest].status = StatusAfter(tx.kind, tx.needs)]
  /\ UNCHANGED <<documents, review_actions, resp>>
  /\ UNCHANGED <<storeVars, evidenceVars, displayVars, up, ui>>

(***************************************************************************)
(* Reviewer assignment and the review ledger.                              *)
(***************************************************************************)
AssignReviewer ==
  \E c \in RequestIds :
    /\ ~Locked(c)
    /\ requests[c].status = "ai_recommendation"
    /\ requests' = [requests EXCEPT ![c].status = "review_pending"]
    /\ UNCHANGED <<documents, extraction_runs, decision_runs, decision_results, review_actions, tx, resp>>
    /\ UNCHANGED <<storeVars, evidenceVars, displayVars, up, ui>>

RecordActionOutcomeNoOverride(c, action, comment) ==
  IF c \notin RequestIds THEN "NotFound"
  ELSE IF action = "request_info" /\ Trim(comment) = "" THEN "CommentRequired"
  ELSE IF requests[c].status = "reviewed" THEN "CaseAlreadyReviewed"
  ELSE IF requests[c].status = "review_pending" /\ action # "override" THEN "ok"
  ELSE "InvalidTransition"

\* the outcome of recordAction(case, reviewer, action, comment)
RecordActionOutcome(c, action, comment) ==
  IF c \notin RequestIds THEN "NotFound"
  ELSE IF action = "request_info" /\ Trim(comment) = "" THEN "CommentRequired"
  ELSE IF requests[c].status = "reviewed"
       THEN (IF action = "override" THEN "ok" ELSE "CaseAlreadyReviewed")
  ELSE IF requests[c].status = "review_pending" /\ action # "override" THEN "ok"
  ELSE "InvalidTransition"

\* the status a recorded action leaves the case in
StatusAfterAction(status, action) ==
  IF status = "review_pending" /\ action \in {"approve", "deny"} THEN "reviewed"
  ELSE IF status = "review_pending" /\ action = "request_info" THEN "needs_info"
  ELSE status

\* POST /api/cases/:id/review
RecordAction ==
  \E c \in RequestIds \cup {NoRequest}, action \in ReviewActionKinds, comment \in Comments :
    /\ ~Locked(c)
    /\ IF RecordActionOutcome(c, action, comment) = "ok"
       THEN /\ Len(review_actions) < MaxLedger
            /\ review_actions' = Append(review_actions,
                 ReviewActionRow(c, action, comment, LatestCompleted(decision_runs, c)))
            /\ requests' = [requests EXCEPT ![c].status = StatusAfterAction(@, action)]
       ELSE UNCHANGED <<review_actions, requests>>
    /\ UNCHANGED <<documents, extraction_runs, decision_runs, decision_results, tx, resp>>
    /\ UNCHANGED <<storeVars, evidenceVars, displayVars, up, ui>>

NextBackend ==
  \/ CreateCase \/ AddDocuments \/ StartExtraction \/ RetryExtraction \/ StartDecision
  \/ ReportExtraction \/ ReportDecision
  \/ TxMarkCompleted \/ TxCommit
  \/ AssignReviewer \/ RecordAction

\* the backend generation has no in-memory store: the tables start empty
InitBackend ==
  /\ cases = <<>> /\ last = NoCall /\ nCalls = 0
  /\ BackendInit /\ EvidenceInit /\ DisplayInit /\ UploadInit /\ PageInit

SpecBackend == InitBackend /\ [][NextBackend]_vars

(***************************************************************************)
(* SpecUpload: upload requests to one case that arrive together (a double  *)
(* submit), each replacing the same logical document.  A handler runs in   *)
(* one transaction: it takes the row lock of the case, reads the status,   *)
(* marks the records it replaces inactive, inserts its own and commits.    *)
(* The statements of different handlers interleave; the lock is what       *)
(* serializes them.                                                        *)
(***************************************************************************)
\* a case awaiting documents, with the record the uploads replace
InitUpload ==
  /\ cases = <<>> /\ last = NoCall /\ nCalls = 0
  /\ \E st \in {"uploaded", "needs_info"} :
       /\ requests = <<RequestRow(st)>>
       /\ extraction_runs = IF st = "needs_info"
                            THEN <<RunRow(NewRunId(<<>>), 1, "completed", NoError)>> ELSE <<>>
       /\ decision_runs = extraction_runs
       /\ decision_results = IF st = "needs_info"
                             THEN {ResultRow(1, TRUE, MissingFields(TRUE))} ELSE {}
  /\ documents = <<DocumentRow(1, "syllabus.pdf", TRUE)>>
  /\ review_actions = <<>>
  /\ tx = NoTx
  /\ resp = Response("none", NoRequest, "none")
  /\ EvidenceInit /\ DisplayInit /\ UploadInit /\ PageInit

\* SELECT ... FOR UPDATE on the row of the case: no other handler is inside its transaction
CaseLockFreeAlways(ups) == TRUE
CaseLockFree(ups) == \A u \in DOMAIN ups : ups[u].pc \notin {"locked", "superseded"}

\* POST /api/cases/:id/documents arrives
UploadArrive ==
  \E u \in 1..MaxUploaders, files \in FileLists :
    /\ up[u].pc = "idle"
    /\ up' = [up EXCEPT ![u] = [pc |-> "waiting", files |-> files]]
    /\ UNCHANGED <<storeVars, backendVars, evidenceVars, displayVars, ui>>

\* BEGIN; lock the case and read its status: the upload is refused unless the case
\* awaits documents
UploadLock ==
  \E u \in 1..MaxUploaders :
    /\ up[u].pc = "waiting"
    /\ CaseLockFree(up)
    /\ up' = [up EXCEPT ![u].pc = IF AddDocumentsOutcome(1, up[u].files) \in {"ok", "rerun"}
                                  THEN "locked" ELSE "refused"]
    /\ UNCHANGED <<storeVars, backendVars, evidenceVars, displayVars, ui>>

\* UPDATE documents SET is_active = FALSE for the records replaced
UploadSupersede ==
  \E u \in 1..MaxUploaders :
    /\ up[u].pc = "locked"
    /\ documents' = Supersede(documents, 1, up[u].files)
    /\ up' = [up EXCEPT ![u].pc = "superseded"]
    /\ UNCHANGED <<requests, extraction_runs, decision_runs, decision_results,
                   review_actions, tx, resp>>
    /\ UNCHANGED <<storeVars, evidenceVars, displayVars, ui>>

\* INSERT the new records; from needs_info the case re-enters extracting on a new run; COMMIT
UploadCommit ==
  \E u \in 1..MaxUploaders :
    /\ up[u].pc = "superseded"
    /\ documents' = InsertDocuments(documents, 1, up[u].files)
    /\ extraction_runs' =
         IF requests[1].status = "needs_info"
         THEN Append(extraction_runs, RunRow(NewRunId(extraction_runs), 1, "queued", NoError))
         ELSE extraction_runs
    /\ requests' = IF requests[1].status = "needs_info"
                   THEN [requests EXCEPT ![1].status = "extracting"] ELSE requests
    /\ up' = [up EXCEPT ![u].pc = "done"]
    /\ UNCHANGED <<decision_runs, decision_results, review_actions, tx, resp>>
    /\ UNCHANGED <<storeVars, evidenceVars, displayVars, ui>>

NextUpload == UploadArrive \/ UploadLock \/ UploadSupersede \/ UploadCommit

SpecUpload == InitUpload /\ [][NextUpload]_vars

(***************************************************************************)
(* services/api.js: the read mappers applied to what GET /api/cases/:id    *)
(* returns.                                                                *)
(***************************************************************************)
Null == "<null>"        \* JavaScript null, for a field that holds a string otherwise
Undefined == <<>>       \* what find returns on no match; a match e is <<e>>

Reverse(seq) == [i \in 1..Len(seq) |-> seq[Len(seq) + 1 - i]]

\* Array.prototype.find: the first element passing the test, or undefined
\* (passing is the set of elements the test accepts)
ArrayFind(seq, passing) ==
  LET hits == {i \in 1..Len(seq) : seq[i] \in passing}
  IN IF hits = {} THEN Undefined ELSE <<seq[CHOOSE i \in hits : \A j \in hits : i <= j]>>

\* x?.field || null
FieldOrNull(x, field) ==
  IF x = Undefined THEN Null ELSE IF Truthy(x[1][field]) THEN x[1][field] ELSE Null

IsInfoRequest(a) == a.action = "request_info"
IsDecision(a) == a.action = "approve" \/ a.action = "deny"
InfoRequests(seq) == {seq[i] : i \in {j \in 1..Len(seq) : IsInfoRequest(seq[j])}}
DecisionsIn(seq) == {seq[i] : i \in {j \in 1..Len(seq) : IsDecision(seq[j])}}

\* mapCaseOut: the status typo of the list endpoints is repaired on the way out
mapCaseOut(c) ==
  [id |-> c.caseId,
   status |-> IF c.status = "AI_RECOMMMENDATION" THEN "AI_RECOMMENDATION" ELSE c.status]

mapDocument(d) == [id |-> d.docId, name |-> d.filename]

RunLogMessage(label, r) ==
  IF Truthy(r.errorMessage) THEN <<label, r.status, ": ", r.errorMessage>> ELSE <<label, r.status>>

LogEntry(timestamp, actor, action, message) ==
  [timestamp |-> timestamp, actor |-> actor, action |-> action, message |-> message]

buildLogsStatusOnly(auditLog) ==
  [i \in 1..Len(auditLog.extractionRuns) |->
     LogEntry(auditLog.extractionRuns[i].createdAt, "AGENT", "EXTRACTION",
              <<"Extraction run ", auditLog.extractionRuns[i].status>>)]
  \o
  [i \in 1..Len(auditLog.decisionRuns) |->
     LogEntry(auditLog.decisionRuns[i].createdAt, "AGENT", "DECISION",
              <<"Decision run ", auditLog.decisionRuns[i].status>>)]
  \o
  [i \in 1..Len(auditLog.reviewActions) |->
     LogEntry(auditLog.reviewActions[i].createdAt, "REVIEWER",
              ToUpperCase(auditLog.reviewActions[i].action),
              <<auditLog.reviewActions[i].comment>>)]

\* buildLogs: one entry per extraction run, then per decision run, then per review action
buildLogs(auditLog) ==
  [i \in 1..Len(auditLog.extractionRuns) |->
     LogEntry(auditLog.extractionRuns[i].createdAt, "AGENT", "EXTRACTION",
              RunLogMessage("Extraction run ", auditLog.extractionRuns[i]))]
  \o
  [i \in 1..Len(auditLog.decisionRuns) |->
     LogEntry(auditLog.decisionRuns[i].createdAt, "AGENT", "DECISION",
              RunLogMessage("Decision run ", auditLog.decisionRuns[i]))]
  \o
  [i \in 1..Len(auditLog.reviewActions) |->
     LogEntry(auditLog.reviewActions[i].createdAt, "REVIEWER",
              ToUpperCase(auditLog.reviewActions[i].action),
              IF Truthy(auditLog.reviewActions[i].comment)
              THEN <<auditLog.reviewActions[i].comment>>
              ELSE <<"Reviewer action: ", auditLog.reviewActions[i].action>>)]

DisplayStatusFirstMatch(status, reviewActions) ==
  LET latestDecision == ArrayFind(reviewActions, DecisionsIn(reviewActions))
      displayStatus == IF status = "REVIEWED" /\ latestDecision # Undefined
               THEN (IF latestDecision[1].action = "approve" THEN "APPROVED" ELSE "DENIED")
               ELSE status
  IN IF displayStatus = "AI_RECOMMMENDATION" THEN "AI_RECOMMENDATION" ELSE displayStatus

\* the status mapCaseDetail shows: REVIEWED becomes APPROVED or DENIED after the latest
\* approve or deny of the review actions
DisplayStatus(status, reviewActions) ==
  LET latestDecision == ArrayFind(Reverse(reviewActions), DecisionsIn(reviewActions))
      displayStatus == IF status = "REVIEWED" /\ latestDecision # Undefined
               THEN (IF latestDecision[1].action = "approve" THEN "APPROVED" ELSE "DENIED")
               ELSE status
  IN IF displayStatus = "AI_RECOMMMENDATION" THEN "AI_RECOMMENDATION" ELSE displayStatus

mapCaseDetail(data) ==
  LET reviewActions == data.auditLog.reviewActions
      latestInfoRequest == ArrayFind(Reverse(reviewActions), InfoRequests(reviewActions))
      latestDecision == ArrayFind(Reverse(reviewActions), DecisionsIn(reviewActions))
  IN [id |-> data.case.caseId,
      status |-> DisplayStatus(data.case.status, reviewActions),
      documents |-> [i \in 1..Len(data.documents) |-> mapDocument(data.documents[i])],
      logs |-> buildLogs(data.auditLog),
      reviewerComment |-> FieldOrNull(latestInfoRequest, "comment"),
      reviewerDecision |-> FieldOrNull(latestDecision, "action"),
      reviewerDecisionComment |-> FieldOrNull(latestDecision, "comment")]

(***************************************************************************)
(* GET /api/cases/:id: the case with its documents and its audit log, each *)
(* list in insertion order.                                                *)
(***************************************************************************)
\* the status as the endpoints spell it
StatusOut(status) ==
  CASE status = "uploaded" -> "UPLOADED"
    [] status = "extracting" -> "EXTRACTING"
    [] status = "ready_for_decision" -> "READY_FOR_DECISION"
    [] status = "needs_info" -> "NEEDS_INFO"
    [] status = "ai_recommendation" -> "AI_RECOMMMENDATION"
    [] status = "review_pending" -> "REVIEW_PENDING"
    [] status = "reviewed" -> "REVIEWED"

RECURSIVE Ascending(_)
Ascending(S) ==
  IF S = {} THEN <<>>
  ELSE LET m == CHOOSE x \in S : \A y \in S : x <= y
       IN <<m>> \o Ascending(S \ {m})

RunOut(runs, r) ==
  [runId |-> runs[r].run_id, status |-> runs[r].status,
   errorMessage |-> runs[r].error_message, createdAt |-> r]

CaseDetailData(c) ==
  LET docs == Ascending({d \in 1..Len(documents) : documents[d].request_id = c})
      eruns == Ascending(RunsOf(extraction_runs, c))
      druns == Ascending(RunsOf(decision_runs, c))
      acts == Ascending({a \in 1..Len(review_actions) : review_actions[a].request_id = c})
  IN [case |-> [caseId |-> c, status |-> StatusOut(requests[c].status)],
      documents |-> [i \in 1..Len(docs) |->
                       [docId |-> docs[i], filename |-> documents[docs[i]].filename]],
      auditLog |->
        [extractionRuns |-> [i \in 1..Len(eruns) |-> RunOut(extraction_runs, eruns[i])],
         decisionRuns |-> [i \in 1..Len(druns) |-> RunOut(decision_runs, druns[i])],
         reviewActions |-> [i \in 1..Len(acts) |->
                              [action |-> review_actions[acts[i]].action,
                               comment |-> review_actions[acts[i]].comment,
                               createdAt |-> acts[i]]]]]

\* fetchCase
fetchCase(c) == mapCaseDetail(CaseDetailData(c))

(***************************************************************************)
(* GET /api/cases/:id/decision/result/latest and the student's needs-info  *)
(* alert.                                                                  *)
(***************************************************************************)
\* result_json.missing_info_requests: one request to the student per missing field
MissingInfoRequests(missing_fields) ==
  IF missing_fields = {} THEN <<>> ELSE <<"Provide the credit hours of the course">>

\* the result of the case's latest completed decision run; Undefined stands for 404
DecisionResultData(c) ==
  LET r == LatestCompleted(decision_runs, c)
      rows == {x \in decision_results : x.decision_run_id = r}
  IN IF r = NoRun \/ rows = {} THEN Undefined
     ELSE LET row == CHOOSE x \in rows : TRUE
          IN <<[decisionRunId |-> r, needsMoreInfo |-> row.needs_more_info,
                missingFields |-> row.missing_fields,
                resultJson |->
                  [missing_info_requests |-> MissingInfoRequests(row.missing_fields)]]>>

mapDecisionResult(data) ==
  LET r == data.resultJson
  IN [needsMoreInfo |-> data.needsMoreInfo, missingFields |-> data.missingFields,
      missingInfoRequests |-> r.missing_info_requests]

\* the endpoint's answer for a case the server holds: 404 while the case has no result,
\* 200 with the result otherwise
DecisionResultResponse(c) ==
  IF DecisionResultData(c) = Undefined THEN [status |-> 404, data |-> Undefined]
  ELSE [status |-> 200, data |-> DecisionResultData(c)]

\* a reader for which every status but 2xx is a failure
fetchDecisionResultThrowsOn404(res) ==
  IF res.status \notin 200..299
  THEN [threw |-> TRUE, value |-> <<"Failed to fetch decision result">>]
  ELSE [threw |-> FALSE, value |-> <<mapDecisionResult(res.data[1])>>]

\* fetchDecisionResult on the response of the fetch: null (Undefined here) on 404, an
\* Error when the response is not ok (its status is outside 200..299), the mapped body
\* otherwise
fetchDecisionResult(res) ==
  IF res.status = 404 THEN [threw |-> FALSE, value |-> Undefined]
  ELSE IF res.status \notin 200..299
       THEN [threw |-> TRUE, value |-> <<"Failed to fetch decision result">>]
       ELSE [threw |-> FALSE, value |-> <<mapDecisionResult(res.data[1])>>]

\* StudentCaseView, before any upload from the page: what the "Additional information
\* required" alert renders above the upload form.  The reviewer comment, when the case
\* has one, is rendered in place of the missing-info list.
NeedsInfoAlert(caseData, decisionResult) ==
  IF caseData.status # "NEEDS_INFO" THEN "none"
  ELSE IF caseData.reviewerComment \notin {Null, ""} THEN "reviewerComment"
  ELSE IF decisionResult # Undefined /\ Len(decisionResult[1].missingInfoRequests) > 0
       THEN "missingInfoRequests"
       ELSE "form"

(***************************************************************************)
(* SpecFetch: the backend as above, and one read of the latest decision    *)
(* result of the case by the page at any moment of the run.  body is the   *)
(* response of the fetch and shown what fetchDecisionResult gave its       *)
(* caller.                                                                 *)
(***************************************************************************)
\* GET /cases/:id/decision/result/latest for a case the server holds: the endpoint
\* answers, or the request fails on the way (a 5xx of the server or of a proxy)
FetchDecisionResult ==
  \E c \in RequestIds :
  \E res \in {DecisionResultResponse(c), [status |-> 500, data |-> Undefined],
              [status |-> 503, data |-> Undefined]} :
    /\ shown = <<>>
    /\ body' = res
    /\ shown' = <<fetchDecisionResult(res)>>
    /\ UNCHANGED <<storeVars, backendVars, evidenceVars, up, ui>>

NextFetch == (shown = <<>> /\ NextBackend) \/ FetchDecisionResult

SpecFetch == InitBackend /\ [][NextFetch]_vars

(***************************************************************************)
(* SpecDelete: rows of decision_runs deleted from a database that holds    *)
(* one case with its decision runs, their results and a ledger of review   *)
(* actions.  The foreign keys of db_schema.sql decide what a DELETE does   *)
(* to the rows that reference the deleted one.                             *)
(***************************************************************************)
\* review_actions.decision_run_id ... ON DELETE CASCADE instead of SET NULL
OnDeleteCascade(actions, r) ==
  LET Kept(a) == a.decision_run_id # r IN SelectSeq(actions, Kept)

\* review_actions.decision_run_id UUID REFERENCES decision_runs(decision_run_id)
\* ON DELETE SET NULL
OnDeleteSetNull(actions, r) ==
  [i \in 1..Len(actions) |->
     IF actions[i].decision_run_id = r THEN [actions[i] EXCEPT !.decision_run_id = NoRun]
     ELSE actions[i]]

\* tables that satisfy the schema: every decision_run_id of a result or of a review
\* action is the key of a decision run, or NULL in review_actions
InitDelete ==
  /\ cases = <<>> /\ last = NoCall /\ nCalls = 0
  /\ EvidenceInit /\ DisplayInit /\ UploadInit /\ PageInit
  /\ requests = <<RequestRow("review_pending")>>
  /\ documents = <<DocumentRow(1, "syllabus.pdf", TRUE)>>
  /\ extraction_runs = <<RunRow(1, 1, "completed", NoError)>>
  /\ \E n \in 1..MaxDecisionRuns :
       /\ \E st \in [1..n -> {"completed", "failed"}] :
            /\ decision_runs =
                 [i \in 1..n |-> RunRow(i, 1, st[i], IF st[i] = "failed" THEN "timeout" ELSE NoError)]
            /\ decision_results = {ResultRow(i, FALSE, {}) : i \in {j \in 1..n : st[j] = "completed"}}
       /\ review_actions \in
            SeqsUpTo([request_id : {1}, action : ReviewActionKinds, comment : {"need syllabus"},
                      decision_run_id : 1..n \cup {NoRun}], MaxLedger)
  /\ tx = NoTx
  /\ resp = Response("none", NoRequest, "none")

\* DELETE FROM decision_runs WHERE decision_run_id = r: the row goes, its result goes
\* with it (decision_results ... ON DELETE CASCADE), the review actions stay.  The
\* response keeps the ledger as it was before the statement.
DeleteDecisionRun ==
  \E r \in RunIds(decision_runs) :
    /\ decision_runs' = LET Kept(row) == row.run_id # r IN SelectSeq(decision_runs, Kept)
    /\ decision_results' = {x \in decision_results : x.decision_run_id # r}
    /\ review_actions' = OnDeleteSetNull(review_actions, r)
    /\ resp' = [op |-> "deleteDecisionRun", request_id |-> 1, outcome |-> "ok",
                decision_run_id |-> r, before |-> review_actions]
    /\ UNCHANGED <<requests, documents, extraction_runs, tx>>
    /\ UNCHANGED <<storeVars, evidenceVars, displayVars, up, ui>>

SpecDelete == InitDelete /\ [][DeleteDecisionRun]_vars

(***************************************************************************)
(* SpecPanel: one mounted ReviewerActionPanel under the clicks and edits   *)
(* of the reviewer.  React runs each event handler to its end and renders  *)
(* before the next event, so a handler is one step.  onAction lists the    *)
(* calls of the onAction prop.                                             *)
(***************************************************************************)
MaxConfirms == 2     \* calls of onAction followed

\* a panel that keeps the Confirm button after the decision was confirmed
ConfirmButtonKept(selectedAction, confirmed) == selectedAction # Null

\* {selectedAction && !confirmed && (<button className="confirm-btn" ...>)}
ConfirmButtonRendered(selectedAction, confirmed) == selectedAction # Null /\ ~confirmed

\* useState(null), useState(""), useState(false), useState(""); currentStatus is the
\* status of the case the page shows
InitPanel ==
  /\ cases = <<>> /\ last = NoCall /\ nCalls = 0
  /\ BackendInit /\ EvidenceInit /\ DisplayInit /\ UploadInit
  /\ \E st \in Statuses \cup {"APPROVED", "DENIED"} :
       ui = [page |-> "ReviewerActionPanel", mountedWith |-> st, currentStatus |-> st,
             selectedAction |-> Null, comment |-> "", confirmed |-> FALSE,
             commentError |-> "", onAction |-> <<>>]

\* handleActionClick, behind buttons that are disabled={isDisabled}
ActionClick ==
  \E action \in {"APPROVE", "DENY", "REQUEST_INFO"} :
    /\ ~isDisabled(ui.currentStatus, ui.confirmed)
    /\ ui' = [ui EXCEPT !.selectedAction = action, !.commentError = ""]
    /\ UNCHANGED <<storeVars, backendVars, evidenceVars, displayVars, up>>

\* the textarea's onChange; the textarea is disabled={confirmed}
CommentChange ==
  \E text \in Comments :
    /\ ~ui.confirmed
    /\ ui' = [ui EXCEPT !.comment = text, !.commentError = ""]
    /\ UNCHANGED <<storeVars, backendVars, evidenceVars, displayVars, up>>

\* handleConfirm, behind the Confirm button; the page's handleAction then shows the
\* case with the status the decision gave it
ConfirmClick ==
  /\ ConfirmButtonRendered(ui.selectedAction, ui.confirmed)
  /\ Len(ui.onAction) < MaxConfirms
  /\ IF handleConfirmAccepts(ui.selectedAction, ui.comment)
     THEN ui' = [ui EXCEPT !.onAction = Append(@, <<ui.selectedAction, ui.comment>>),
                           !.confirmed = TRUE,
                           !.currentStatus = ReviewNewStatus(ui.selectedAction)]
     ELSE ui' = [ui EXCEPT !.commentError = "Comment is required when requesting more info."]
  /\ UNCHANGED <<storeVars, backendVars, evidenceVars, displayVars, up>>

SpecPanel == InitPanel /\ [][ActionClick \/ CommentChange \/ ConfirmClick]_vars

(***************************************************************************)
(* SpecForms: the two upload forms of the student, StudentNewCase and the  *)
(* "Upload Additional Documents" form of StudentCaseView on a NEEDS_INFO   *)
(* case.  A file is its name, split at the last dot; stagedFiles is the    *)
(* staged list of the new-case form and the FileList of the file input of  *)
(* the other; sent lists the calls of submitNewCase and                    *)
(* submitAdditionalInfo with the files handed over.                        *)
(***************************************************************************)
MaxPicked == 2       \* files of one selection or drop
MaxStaged == 2       \* files staged in the new-case form

\* what a student can pick: syllabus.pdf, syllabus.PDF, syllabus.txt and syllabus
PickedFiles == [stem : {"syllabus"}, ext : {"pdf", "PDF", "txt", ""}]

\* what a student can type into a text field
FieldTexts == {"", " ", "CPSC 3400"}

\* a test that lets every file name through
EndsWithAnything(f) == TRUE

\* f.name.toLowerCase().endsWith(".pdf")
EndsWithPdf(f) == ToLowerCase(f.ext) = "pdf"

\* validateAndAddFiles: the files split into valid and invalid, in the order given;
\* the caller stages valid and fileError names invalid
validateAndAddFiles(fileList) ==
  LET Invalid(f) == ~EndsWithPdf(f)
  IN [valid |-> SelectSeq(fileList, EndsWithPdf), invalid |-> SelectSeq(fileList, Invalid)]

\* a Submit button that does not look at the staged files
canSubmitWithoutFiles(form) ==
  Trim(form.targetCourse) # "" /\ Trim(form.previousCourse) # ""
    /\ Trim(form.previousInstitution) # ""

\* canSubmit, the negation of the Submit button's disabled attribute
canSubmit(form) ==
  /\ Trim(form.targetCourse) # ""
  /\ Trim(form.previousCourse) # ""
  /\ Trim(form.previousInstitution) # ""
  /\ Len(form.stagedFiles) > 0

\* either form as mounted: empty fields, nothing staged, no error, nothing sent
InitForms ==
  /\ cases = <<>> /\ last = NoCall /\ nCalls = 0
  /\ BackendInit /\ EvidenceInit /\ DisplayInit /\ UploadInit
  /\ \E page \in {"StudentNewCase", "StudentCaseView"} :
       ui = [page |-> page, targetCourse |-> "", previousCourse |-> "",
             previousInstitution |-> "", stagedFiles |-> <<>>, picked |-> <<>>,
             fileError |-> <<>>, submitted |-> FALSE, sent |-> <<>>]

\* the onChange of the three text inputs of the new-case form
EditField ==
  \E field \in {"targetCourse", "previousCourse", "previousInstitution"}, text \in FieldTexts :
    /\ ui.page = "StudentNewCase" /\ ~ui.submitted
    /\ ui' = [ui EXCEPT ![field] = text]
    /\ UNCHANGED <<storeVars, backendVars, evidenceVars, displayVars, up>>

\* a selection in the file dialog or a drop.  New-case form: handleFileSelect and
\* handleDrop stage the valid files and name the others in fileError.  Additional
\* documents: the input's onChange empties the input when any file is invalid.
SelectFiles ==
  \E fileList \in SeqsUpTo(PickedFiles, MaxPicked) :
    /\ ~ui.submitted
    /\ LET v == validateAndAddFiles(fileList)
       IN IF ui.page = "StudentNewCase"
          THEN /\ Len(ui.stagedFiles) + Len(v.valid) <= MaxStaged
               /\ ui' = [ui EXCEPT !.stagedFiles = @ \o v.valid, !.fileError = v.invalid,
                                   !.picked = fileList]
          ELSE ui' = [ui EXCEPT !.stagedFiles = IF v.invalid # <<>> THEN <<>> ELSE fileList,
                                !.fileError = v.invalid, !.picked = fileList]
    /\ UNCHANGED <<storeVars, backendVars, evidenceVars, displayVars, up>>

\* removeFile(index) of the new-case form
removeFile ==
  \E index \in 1..Len(ui.stagedFiles) :
    /\ ui.page = "StudentNewCase" /\ ~ui.submitted
    /\ ui' = [ui EXCEPT !.stagedFiles = SubSeq(@, 1, index - 1) \o SubSeq(@, index + 1, Len(@))]
    /\ UNCHANGED <<storeVars, backendVars, evidenceVars, displayVars, up>>

\* the Submit button.  New-case form: disabled={!canSubmit}, handleSubmit calls
\* submitNewCase with the staged files.  Additional documents: the click returns when
\* the input holds no file and calls submitAdditionalInfo with the input's files
\* otherwise.  The form is replaced once the call has succeeded.
SubmitClick ==
  /\ ~ui.submitted
  /\ IF ui.page = "StudentNewCase"
     THEN /\ canSubmit(ui)
          /\ ui' = [ui EXCEPT !.submitted = TRUE,
                              !.sent = Append(@, [op |-> "submitNewCase",
                                                  courseRequested |-> ui.targetCourse,
                                                  files |-> ui.stagedFiles])]
     ELSE /\ Len(ui.stagedFiles) # 0
          /\ ui' = [ui EXCEPT !.submitted = TRUE,
                              !.sent = Append(@, [op |-> "submitAdditionalInfo",
                                                  courseRequested |-> "",
                                                  files |-> ui.stagedFiles])]
  /\ UNCHANGED <<storeVars, backendVars, evidenceVars, displayVars, up>>

SpecForms == InitForms /\ [][EditField \/ SelectFiles \/ removeFile \/ SubmitClick]_vars

(***************************************************************************)
(* SpecSession: the single-page app over the seeded store.  The session is *)
(* the user object of AuthProvider; the place is an entry of the browser's *)
(* history, moved by the login form, by links and by the Back and Forward  *)
(* buttons, none of which reloads the page.  A path is the route pattern   *)
(* it matches with the route's parameters.                                 *)
(***************************************************************************)
MaxHistory == 4      \* entries of the browser history

\* useState(null) of AuthProvider: nobody is logged in
NoUser == [role |-> Null, studentId |-> Null]

Path(route, studentId, id) == [route |-> route, studentId |-> studentId, id |-> id]

\* getCasesByStudent: cases.filter(c => c.student_id === studentId), as a set of ids
getCasesByStudent(cs, studentId) == {cs[i].id : i \in {j \in 1..Len(cs) : cs[j].student_id = studentId}}

\* RequireAuth role="student" around the element of a student route: the element is
\* rendered for a user of that role, and the entry is replaced by /login otherwise
RequireAuth(user, history, at) ==
  IF history[at].route \in {"/student/:studentId", "/student/:studentId/case/:id"}
     /\ (user = NoUser \/ user.role # "student")
  THEN [history EXCEPT ![at] = Path("/login", "", NoCase)]
  ELSE history

\* the app as loaded at "/": no user, LoginPage shown
InitSession ==
  /\ cases = mockCases /\ last = NoCall /\ nCalls = 0
  /\ BackendInit /\ EvidenceInit /\ DisplayInit /\ UploadInit
  /\ ui = [page |-> "App", user |-> NoUser, history |-> <<Path("/", "", NoCase)>>, at |-> 1]

\* handleLogin of LoginPage: loginAsStudent / loginAsReviewer, then navigate
handleLogin ==
  \E role \in {"student", "reviewer"}, utcId \in {"alj001", "bom002", " "} :
    /\ ui.history[ui.at].route \in {"/", "/login"}
    /\ ui.at < MaxHistory
    /\ IF Trim(utcId) = ""
       THEN UNCHANGED ui
       ELSE LET user == [role |-> role, studentId |-> IF role = "student" THEN Trim(utcId) ELSE Null]
                to == IF role = "student" THEN Path("/student/:studentId", Trim(utcId), NoCase)
                      ELSE Path("/reviewer", "", NoCase)
            IN ui' = [ui EXCEPT !.user = user, !.at = ui.at + 1,
                                !.history = RequireAuth(user, Append(SubSeq(@, 1, ui.at), to), ui.at + 1)]
    /\ UNCHANGED <<storeVars, backendVars, evidenceVars, displayVars, up>>

\* the Logout button of NavBar: setUser(null); a student page then redirects
logout ==
  /\ ui.user # NoUser
  /\ ui' = [ui EXCEPT !.user = NoUser, !.history = RequireAuth(NoUser, @, ui.at)]
  /\ UNCHANGED <<storeVars, backendVars, evidenceVars, displayVars, up>>

\* the links of the pages: the brand link of NavBar to "/", and on StudentDashboard
\* the link of a listed case to /student/${studentId}/case/${c.id}
LinkClick ==
  \E to \in {Path("/", "", NoCase)} \cup
            (IF ui.history[ui.at].route = "/student/:studentId"
             THEN {Path("/student/:studentId/case/:id", ui.history[ui.at].studentId, c) :
                     c \in getCasesByStudent(cases, ui.history[ui.at].studentId)}
             ELSE {}) :
    /\ ui.at < MaxHistory
    /\ ui' = [ui EXCEPT !.at = ui.at + 1,
                        !.history = RequireAuth(ui.user, Append(SubSeq(@, 1, ui.at), to), ui.at + 1)]
    /\ UNCHANGED <<storeVars, backendVars, evidenceVars, displayVars, up>>

\* the Back and Forward buttons of the browser: a popstate the router follows
HistoryGo ==
  \E delta \in {-1, 1} :
    /\ ui.at + delta \in 1..Len(ui.history)
    /\ ui' = [ui EXCEPT !.at = ui.at + delta,
                        !.history = RequireAuth(ui.user, @, ui.at + delta)]
    /\ UNCHANGED <<storeVars, backendVars, evidenceVars, displayVars, up>>

SpecSession == InitSession /\ [][handleLogin \/ logout \/ LinkClick \/ HistoryGo]_vars

(***************************************************************************)
(* SpecEvidence: the citation / evidence grounding model over              *)
(* citation_chunks, grounded_evidence and evidence_citations, for a case   *)
(* whose extraction run is running.                                        *)
(***************************************************************************)
MaxChunks == 2
MaxEvidence == 2

\* page and span of the excerpts the pipeline may cut
Contents == {"p1:0-80", "p2:0-40"}

\* chunk_sha_id: SHA of doc_id + run_id + span + text
ChunkShaId(doc, run, content) == <<doc, run, content>>

ChunkRow(chunk_uuid, chunk_sha_id, doc_id, extraction_run_id) ==
  [chunk_uuid |-> chunk_uuid, chunk_sha_id |-> chunk_sha_id, doc_id |-> doc_id,
   extraction_run_id |-> extraction_run_id]
EvidenceRow(evidence_id, request_id, extraction_run_id, unknown) ==
  [evidence_id |-> evidence_id, request_id |-> request_id,
   extraction_run_id |-> extraction_run_id, fact_type |-> "credits", unknown |-> unknown]

NewChunkUuid(chunks) == Len(chunks) + 1
NewEvidenceId(evidence) == Len(evidence) + 1
ChunkUuids(chunks) == {chunks[k].chunk_uuid : k \in 1..Len(chunks)}

\* the rows evidence_citations gets for one fact: one per cited chunk
CitationLinks(evidence_id, chunkIds) == {<<evidence_id, k>> : k \in chunkIds}
CitationsOf(links, evidence_id) == {l \in links : l[1] = evidence_id}

\* the chunk lists a caller passes: none, or one chunk id, which may name no row
ChunkLists == {{}} \cup {{k} : k \in 1..MaxChunks}

EvCall(op, unknown, chunkIds, outcome, id, sha) ==
  [op |-> op, unknown |-> unknown, chunkIds |-> chunkIds, outcome |-> outcome, id |-> id,
   sha |-> sha]

\* the store as CreateCase, StartExtraction and a running report leave it
InitEvidence ==
  /\ cases = <<>> /\ last = NoCall /\ nCalls = 0
  /\ requests = <<RequestRow("extracting")>>
  /\ documents = <<DocumentRow(1, "syllabus.pdf", TRUE)>>
  /\ extraction_runs = <<RunRow(NewRunId(<<>>), 1, "running", NoError)>>
  /\ decision_runs = <<>>
  /\ decision_results = {}
  /\ review_actions = <<>>
  /\ tx = NoTx
  /\ resp = Response("none", NoRequest, "none")
  /\ EvidenceInit /\ DisplayInit /\ UploadInit /\ PageInit

\* chunk_sha_id TEXT NOT NULL UNIQUE: the rows that carry a content hash
ChunkByShaMissed(chunks, sha) == {}
ChunkBySha(chunks, sha) == {k \in 1..Len(chunks) : chunks[k].chunk_sha_id = sha}

\* recordChunk(document, run, page, span, text): the chunk of that content hash, created
\* when there is none
RecordChunk ==
  \E run \in 1..Len(extraction_runs), content \in Contents :
    \E doc \in DocsOf(documents, extraction_runs[run].request_id) :
      LET sha == ChunkShaId(doc, run, content)
          hit == ChunkBySha(citation_chunks, sha)
      IN /\ extraction_runs[run].status = "running"
         /\ IF hit # {}
            THEN /\ UNCHANGED citation_chunks
                 /\ ev_last' = EvCall("recordChunk", FALSE, {}, "ok",
                                      citation_chunks[CHOOSE k \in hit : TRUE].chunk_uuid, sha)
            ELSE /\ Len(citation_chunks) < MaxChunks
                 /\ citation_chunks' = Append(citation_chunks,
                      ChunkRow(NewChunkUuid(citation_chunks), sha, doc, run))
                 /\ ev_last' = EvCall("recordChunk", FALSE, {}, "ok",
                                      NewChunkUuid(citation_chunks), sha)
         /\ UNCHANGED <<grounded_evidence, evidence_citations>>
         /\ UNCHANGED <<storeVars, backendVars, displayVars, up, ui>>

RecordEvidenceOutcomeUnchecked(unknown, chunkIds, chunks) ==
  IF ~(chunkIds \subseteq ChunkUuids(chunks)) THEN "ForeignKeyViolation" ELSE "ok"

\* the outcome of recordEvidence(case, run, factType, value|unknown, chunkIds)
RecordEvidenceOutcome(unknown, chunkIds, chunks) ==
  IF ~unknown /\ chunkIds = {} THEN "UngroundedClaim"
  ELSE IF ~(chunkIds \subseteq ChunkUuids(chunks)) THEN "ForeignKeyViolation"
  ELSE "ok"

\* recordEvidence: the fact and its citation links in one transaction, or nothing
RecordEvidence ==
  \E run \in 1..Len(extraction_runs), unknown \in BOOLEAN, chunkIds \in ChunkLists :
    LET outcome == RecordEvidenceOutcome(unknown, chunkIds, citation_chunks)
        id == NewEvidenceId(grounded_evidence)
    IN /\ extraction_runs[run].status = "running"
       /\ IF outcome = "ok"
          THEN /\ Len(grounded_evidence) < MaxEvidence
               /\ grounded_evidence' = Append(grounded_evidence,
                    EvidenceRow(id, extraction_runs[run].request_id, run, unknown))
               /\ evidence_citations' = evidence_citations \cup CitationLinks(id, chunkIds)
               /\ ev_last' = EvCall("recordEvidence", unknown, chunkIds, outcome, id, <<>>)
          ELSE /\ UNCHANGED <<grounded_evidence, evidence_citations>>
               /\ ev_last' = EvCall("recordEvidence", unknown, chunkIds, outcome, NoChunk, <<>>)
       /\ UNCHANGED citation_chunks
       /\ UNCHANGED <<storeVars, backendVars, displayVars, up, ui>>

NextEvidence == RecordChunk \/ RecordEvidence

SpecEvidence == InitEvidence /\ [][NextEvidence]_vars

(***************************************************************************)
(* SpecDisplay: fetchCase applied to the bodies the detail endpoint can    *)
(* answer with, the review actions in the order they were inserted.        *)
(***************************************************************************)
MaxActions == 3
MaxStamp == 2

DisplayComments == {"", "ok"}
StatusesOut == {StatusOut(st) : st \in RequestStatuses}

ReviewActionsOut ==
  [action : ReviewActionKinds, comment : DisplayComments, createdAt : 1..MaxStamp]

\* insertion order; created_at never runs backwards and two actions may share one
Ledgers(n) ==
  {acts \in SeqsUpTo(ReviewActionsOut, n) :
     \A i \in 1..Len(acts) : \A j \in i..Len(acts) : acts[i].createdAt <= acts[j].createdAt}

InitDisplay ==
  /\ cases = <<>> /\ last = NoCall /\ nCalls = 0
  /\ BackendInit /\ EvidenceInit /\ UploadInit /\ PageInit
  /\ \E st \in StatusesOut, acts \in Ledgers(MaxActions) :
       body = CaseDetailBody(1, st, <<>>, AuditLog(<<>>, <<>>, acts))
  /\ shown = <<>>

FetchCase ==
  /\ shown = <<>>
  /\ shown' = <<mapCaseDetail(body)>>
  /\ UNCHANGED <<body, storeVars, backendVars, evidenceVars, up, ui>>

NextDisplay == FetchCase

SpecDisplay == InitDisplay /\ [][NextDisplay]_vars

(***************************************************************************)
(* SpecLog: the audit log of a case from the response body to the timeline *)
(* the pages render.  Timestamps are points of one clock, compared as      *)
(* new Date(timestamp).getTime() compares them.                            *)
(***************************************************************************)
MaxLogRuns == 2

\* the runs of one kind as the endpoint lists them: in insertion order, created_at never
\* running backwards
RunLists(n) ==
  {runs \in SeqsUpTo([runId : 1..n, status : {"completed"}, errorMessage : {NoError},
                      createdAt : 1..MaxStamp], n) :
     /\ \A i \in 1..Len(runs) : runs[i].runId = i
     /\ \A i \in 1..Len(runs) : \A j \in i..Len(runs) : runs[i].createdAt <= runs[j].createdAt}

InitLog ==
  /\ cases = <<>> /\ last = NoCall /\ nCalls = 0
  /\ BackendInit /\ EvidenceInit /\ UploadInit /\ PageInit
  /\ \E eruns \in RunLists(MaxLogRuns), druns \in RunLists(MaxLogRuns), acts \in Ledgers(1) :
       body = CaseDetailBody(1, "REVIEW_PENDING", <<>>, AuditLog(eruns, druns, acts))
  /\ shown = <<>>

SpecLog == InitLog /\ [][NextDisplay]_vars

\* AuditLogTimeline: [...logs].sort((a, b) => time(a) - time(b)), a stable sort: entries
\* with equal timestamps keep the order they had in logs
RECURSIVE AuditLogTimeline(_)
AuditLogTimelineAsGiven(logs) == logs
AuditLogTimeline(logs) ==
  IF logs = <<>> THEN <<>>
  ELSE LET sorted == AuditLogTimeline(SubSeq(logs, 1, Len(logs) - 1))
           entry == logs[Len(logs)]
           k == Cardinality({i \in 1..Len(sorted) : sorted[i].timestamp <= entry.timestamp})
       IN SubSeq(sorted, 1, k) \o <<entry>> \o SubSeq(sorted, k + 1, Len(sorted))

(***************************************************************************)
(* Properties of the in-memory service layer (Spec).                       *)
(***************************************************************************)
CallMade == last.op \in {"submitAdditionalInfo", "submitReviewerDecision"} /\ last.pre # "absent"

\* the status the section 4.1 table gives the event of the last call
Requested ==
  IF last.op = "submitAdditionalInfo" THEN "EXTRACTING"
  ELSE IF last.action = "REQUEST_INFO" THEN "NEEDS_INFO"
  ELSE "REVIEWED"

\* the guard the section 4.1 table puts on the event of the last call
GuardHolds ==
  IF last.op = "submitAdditionalInfo" THEN last.pre = "NEEDS_INFO" /\ last.nFiles >= 1
  ELSE /\ last.pre = "REVIEW_PENDING"
       /\ last.action \in {"APPROVE", "DENY", "REQUEST_INFO"}
       /\ last.action = "REQUEST_INFO" => Trim(last.comment) # ""

\* C1: every change of a case's status follows an edge of the section 4.1 transition
\* table, and a requested transition that is no edge of the table fails with
\* InvalidTransition.
C1_TransitionsFollowTable ==
  CallMade =>
    /\ StatusOf(cases, last.caseId) # last.pre
         => <<last.pre, StatusOf(cases, last.caseId)>> \in Edges
    /\ <<last.pre, Requested>> \notin Edges => last.returned = "InvalidTransition"

\* C2: a transition attempt that violates its guard is answered with an error and is
\* never a silent no-op; on the error the case's status, documents and ledger are as
\* they were before the call.
C2_GuardViolationIsAnError ==
  (CallMade /\ ~GuardHolds) =>
    /\ last.returned \notin {"case", "null"}
    /\ cases = last.before

\* C4: once a case is REVIEWED, approve, deny and request_info are rejected with
\* CaseAlreadyReviewed and the stored status stays REVIEWED.
C4_ReviewedIsFinal ==
  (CallMade /\ last.pre = "REVIEWED" /\ last.op = "submitReviewerDecision"
     /\ last.action \in {"APPROVE", "DENY", "REQUEST_INFO"}) =>
    /\ StatusOf(cases, last.caseId) = "REVIEWED"
    /\ last.returned = "CaseAlreadyReviewed"

\* C5: a request_info action whose comment is empty or whitespace-only is rejected with
\* CommentRequired: no log entry is appended and the case status is unchanged.
C5_BlankRequestInfoRejected ==
  (CallMade /\ last.op = "submitReviewerDecision" /\ last.action = "REQUEST_INFO"
     /\ Trim(last.comment) = "") =>
    /\ last.returned = "CommentRequired"
    /\ getCaseById(cases, last.caseId).logs = getCaseById(last.before, last.caseId).logs
    /\ StatusOf(cases, last.caseId) = last.pre

RunEdges == {<<"queued", "running">>, <<"running", "completed">>, <<"running", "failed">>}
Terminal(row) == row.status \in {"completed", "failed"}

RunsMoveForward(runs, runsAfter) ==
  /\ Len(runsAfter) >= Len(runs)
  /\ \A r \in 1..Len(runs) :
       \/ runsAfter[r] = runs[r]
       \/ /\ ~Terminal(runs[r])
          /\ <<runs[r].status, runsAfter[r].status>> \in RunEdges
          /\ runsAfter[r].run_id = runs[r].run_id
          /\ runsAfter[r].request_id = runs[r].request_id
          /\ runsAfter[r].error_message # NoError => runsAfter[r].status = "failed"

\* C7: a run's status only moves along queued -> running -> {completed, failed}; a
\* completed or failed run is never changed again, and no run record is removed.
C7_RunsOnlyMoveForward ==
  [][/\ RunsMoveForward(extraction_runs, extraction_runs')
     /\ RunsMoveForward(decision_runs, decision_runs')]_vars

\* a failed extraction run kept beside the run that was created to try again
C7_Witness ==
  \E r1, r2 \in 1..Len(extraction_runs) :
    /\ r1 < r2
    /\ extraction_runs[r1].request_id = extraction_runs[r2].request_id
    /\ extraction_runs[r1].status = "failed"
    /\ extraction_runs[r1].error_message # NoError
    /\ extraction_runs[r2].status = "running"

\* C8: no reader of the tables sees a case in extracting whose current extraction run
\* is completed.
C8_CompletionIsAtomic ==
  \A c \in RequestIds :
    (requests[c].status = "extracting" /\ CurrentRun(extraction_runs, c) # NoRun)
      => extraction_runs[CurrentRun(extraction_runs, c)].status # "completed"

\* a completion report whose first statement has run and which has not committed
C8_Witness ==
  /\ tx.kind = "extraction" /\ tx.done = 1
  /\ requests[TxRequest].status = "extracting"

FailedRunShown(c, r) ==
  LET logs == fetchCase(c).logs
  IN \E i \in 1..Len(logs) :
       /\ logs[i].action = "EXTRACTION"
       /\ logs[i].timestamp = r
       /\ logs[i].message =
            <<"Extraction run ", "failed", ": ", extraction_runs[r].error_message>>

\* C9: a failure report leaves the status of the owning case as it was; the failed run
\* and its error message are shown in the case's log from then on; and a case leaves
\* extracting only on a run that has not failed.
C9_FailedRunDoesNotAdvanceCase ==
  /\ [](\A r \in 1..Len(extraction_runs) :
          extraction_runs[r].status = "failed"
            => /\ extraction_runs[r].error_message # NoError
               /\ FailedRunShown(extraction_runs[r].request_id, r))
  /\ [][\A r \in 1..Len(extraction_runs) :
          (extraction_runs[r].status # "failed" /\ extraction_runs'[r].status = "failed")
            => requests' = requests]_vars
  /\ [][\A c \in RequestIds :
          (requests[c].status = "extracting" /\ requests'[c].status # "extracting")
            => /\ extraction_runs[CurrentRun(extraction_runs, c)].status = "running"
               /\ extraction_runs'[CurrentRun(extraction_runs, c)].status = "completed"
               /\ requests'[c].status = "ready_for_decision"]_vars

\* a case whose first run failed and which went on to ready_for_decision on a second run
C9_Witness ==
  \E c \in RequestIds :
    /\ requests[c].status = "ready_for_decision"
    /\ \E r1, r2 \in RunsOf(extraction_runs, c) :
         r1 < r2 /\ extraction_runs[r1].status = "failed"
                 /\ extraction_runs[r2].status = "completed"
                 /\ FailedRunShown(c, r1)

(***************************************************************************)
(* Properties of the grounding model (SpecEvidence).                       *)
(***************************************************************************)
Grounded(e) == e.unknown \/ CitationsOf(evidence_citations, e.evidence_id) # {}

\* C3: every stored evidence row is unknown or has at least one citation link to a
\* stored chunk; recordEvidence for a known fact with no chunk ids answers
\* UngroundedClaim and leaves grounded_evidence and evidence_citations as they were.
C3_EvidenceIsGrounded ==
  /\ [](/\ \A i \in 1..Len(grounded_evidence) : Grounded(grounded_evidence[i])
        /\ \A l \in evidence_citations :
             l[1] \in 1..Len(grounded_evidence) /\ l[2] \in ChunkUuids(citation_chunks))
  /\ [][(ev_last'.op = "recordEvidence" /\ ~ev_last'.unknown /\ ev_last'.chunkIds = {})
          => /\ ev_last'.outcome = "UngroundedClaim"
             /\ grounded_evidence' = grounded_evidence
             /\ evidence_citations' = evidence_citations]_vars

\* a cited fact and an unknown fact are stored, and an uncited known fact was just refused
C3_Witness ==
  /\ ev_last.op = "recordEvidence" /\ ev_last.outcome = "UngroundedClaim"
  /\ \E i, j \in 1..Len(grounded_evidence) :
       /\ ~grounded_evidence[i].unknown
       /\ CitationsOf(evidence_citations, grounded_evidence[i].evidence_id) # {}
       /\ grounded_evidence[j].unknown
       /\ CitationsOf(evidence_citations, grounded_evidence[j].evidence_id) = {}

(***************************************************************************)
(* Properties of the status shown (SpecDisplay).                           *)
(***************************************************************************)
Decisions(acts) == {i \in 1..Len(acts) : acts[i].action \in {"approve", "deny"}}
LastDecision(acts) == acts[Max(Decisions(acts))]

\* C10: for a case stored as REVIEWED the status shown is APPROVED when the last approve
\* or deny of the review actions, in the order they were inserted, is approve, and
\* DENIED when it is deny, whatever timestamps the actions carry and whatever
\* request_info or override actions follow.
C10_DisplayStatusFollowsLastDecision ==
  (shown # <<>> /\ body.case.status = "REVIEWED"
     /\ Decisions(body.auditLog.reviewActions) # {})
    => shown[1].status =
         (IF LastDecision(body.auditLog.reviewActions).action = "approve"
          THEN "APPROVED" ELSE "DENIED")

\* approve and deny inserted with one timestamp, then an override: DENIED is shown
C10_Witness ==
  /\ shown # <<>> /\ body.case.status = "REVIEWED"
  /\ Len(body.auditLog.reviewActions) = 3
  /\ body.auditLog.reviewActions[1].action = "approve"
  /\ body.auditLog.reviewActions[2].action = "deny"
  /\ body.auditLog.reviewActions[1].createdAt = body.auditLog.reviewActions[2].createdAt
  /\ body.auditLog.reviewActions[3].action = "override"
  /\ shown[1].status = "DENIED"

\* C11: whenever a decision run has completed with needsMoreInfo for a case, the case is
\* shown in NEEDS_INFO and the student's page shows a non-empty missing-info list, also
\* on a cycle that follows an earlier request_info of a reviewer
C11_MissingInfoShownOnEveryCycle ==
  \A c \in RequestIds :
    (/\ requests[c].status = "needs_info"
     /\ DecisionResultData(c) # Undefined
     /\ DecisionResultData(c)[1].needsMoreInfo) =>
      /\ fetchCase(c).status = "NEEDS_INFO"
      /\ NeedsInfoAlert(fetchCase(c), fetchDecisionResult(DecisionResultResponse(c)).value)
           = "missingInfoRequests"

\* C12: after request_info with a non-empty comment on a REVIEW_PENDING case the case is
\* NEEDS_INFO and the reviewer comment read back from it is the comment of that call
C12_RequestInfoCommentReadBack ==
  (/\ last.op = "submitReviewerDecision" /\ last.action = "REQUEST_INFO"
   /\ Trim(last.comment) # "" /\ last.pre = "REVIEW_PENDING") =>
    /\ StatusOf(cases, last.caseId) = "NEEDS_INFO"
    /\ getCaseById(cases, last.caseId).reviewer_comment = last.comment

C12_Witness ==
  /\ last.op = "submitReviewerDecision" /\ last.action = "REQUEST_INFO"
  /\ last.comment = "need syllabus" /\ last.pre = "REVIEW_PENDING"
  /\ getCaseById(last.before, last.caseId).reviewer_comment = NoComment
  /\ getCaseById(cases, last.caseId).reviewer_comment = "need syllabus"

\* C13: on a case that reached reviewed through an approve, recordAction with override
\* is accepted, and the step that records it appends exactly one row to the ledger and
\* leaves every earlier row, the approve included, as it was
C13_OverrideAppendsToLedger ==
  /\ [](\A c \in RequestIds :
          (/\ requests[c].status = "reviewed"
           /\ \E a \in 1..Len(review_actions) :
                review_actions[a].request_id = c /\ review_actions[a].action = "approve") =>
            \A comment \in Comments : RecordActionOutcome(c, "override", comment) = "ok")
  /\ [][\A c \in RequestIds :
          (/\ requests[c].status = "reviewed"
           /\ \E a \in 1..Len(review_actions) :
                review_actions[a].request_id = c /\ review_actions[a].action = "approve"
           /\ review_actions' # review_actions) =>
            /\ Len(review_actions') = Len(review_actions) + 1
            /\ SubSeq(review_actions', 1, Len(review_actions)) = review_actions
            /\ review_actions'[Len(review_actions')].action = "override"
            /\ review_actions'[Len(review_actions')].request_id = c
            /\ requests'[c].status = "reviewed"]_vars

C13_Witness ==
  /\ Len(review_actions) = 2
  /\ review_actions[1].action = "approve" /\ review_actions[2].action = "override"
  /\ requests[review_actions[2].request_id].status = "reviewed"

\* C14: documents are added to a case only while it is NEEDS_INFO or UPLOADED; in every
\* other status the attempt is rejected and the documents and the status of the case stay
\* as they were
C14_UploadOnlyWhenAwaited ==
  (/\ last.op = "submitAdditionalInfo"
   /\ last.pre \notin {"NEEDS_INFO", "UPLOADED", "absent"}) =>
    /\ last.returned # "case"
    /\ getCaseById(cases, last.caseId).documents
         = getCaseById(last.before, last.caseId).documents
    /\ StatusOf(cases, last.caseId) = last.pre

\* C15: a call changes nothing of what the store holds but the status of a case:
\* documents and log entries are only added, never altered or removed, and a reviewer
\* comment, once stored, is never replaced
C15_OnlyStatusIsUpdated ==
  \A i \in 1..Len(last.before) :
    LET old == last.before[i]
        new == getCaseById(cases, old.id)
    IN /\ Find(cases, old.id) # 0
       /\ Len(new.documents) >= Len(old.documents)
       /\ SubSeq(new.documents, 1, Len(old.documents)) = old.documents
       /\ Len(new.logs) >= Len(old.logs)
       /\ SubSeq(new.logs, 1, Len(old.logs)) = old.logs
       /\ old.reviewer_comment # NoComment => new.reviewer_comment = old.reviewer_comment

\* C16: recordChunk is idempotent: no two rows of citation_chunks carry the same content
\* hash, the id a call returns is the id of the one row with the hash of its inputs, and
\* a call whose inputs were recorded before returns the id of that row and adds no row
C16_RecordChunkIdempotent ==
  /\ [](/\ \A j, k \in 1..Len(citation_chunks) :
             citation_chunks[j].chunk_sha_id = citation_chunks[k].chunk_sha_id => j = k
        /\ ev_last.op = "recordChunk" =>
             \E k \in 1..Len(citation_chunks) :
               /\ citation_chunks[k].chunk_uuid = ev_last.id
               /\ citation_chunks[k].chunk_sha_id = ev_last.sha)
  /\ [][/\ SubSeq(citation_chunks', 1, Len(citation_chunks)) = citation_chunks
        /\ \A k \in 1..Len(citation_chunks) :
             (ev_last'.op = "recordChunk" /\ ev_last' # ev_last
              /\ citation_chunks[k].chunk_sha_id = ev_last'.sha) =>
               /\ ev_last'.id = citation_chunks[k].chunk_uuid
               /\ citation_chunks' = citation_chunks]_vars

\* the first of two stored chunks was just recorded again and its id returned
C16_Witness ==
  /\ ev_last.op = "recordChunk" /\ Len(citation_chunks) = 2
  /\ ev_last.id = citation_chunks[1].chunk_uuid
  /\ ev_last.sha = citation_chunks[1].chunk_sha_id

\* C17: when the uploads to a case that arrived together have all completed, every
\* logical document of the case has exactly one active record, and every record an
\* upload replaced is inactive
C17_OneActiveRecordAfterConcurrentUploads ==
  (\A u \in 1..MaxUploaders : up[u].pc \in {"done", "refused"}) =>
    \A d \in DocsOf(documents, 1) :
      /\ Cardinality({e \in DocsOf(documents, 1) :
                        documents[e].filename = documents[d].filename
                        /\ documents[e].is_active}) = 1
      /\ documents[d].is_active <=>
           \A e \in DocsOf(documents, 1) :
             documents[e].filename = documents[d].filename => e <= d

\* two uploads of the same file have both been stored: the last record is the active one
C17_Witness ==
  /\ \A u \in 1..MaxUploaders : up[u].pc = "done"
  /\ Len(documents) = 1 + MaxUploaders
  /\ \A d \in 1..Len(documents) :
       documents[d].filename = "syllabus.pdf" /\ (documents[d].is_active <=> d = Len(documents))

\* C18: the status a case is stored with is always one of the seven statuses of the
\* state machine; no other value, APPROVED and DENIED included, is ever held by the store
C18_StoredStatusIsOneOfSeven ==
  \A i \in 1..Len(cases) : cases[i].status \in Statuses

\* C19: the log fetchCase returns for a case is in non-decreasing timestamp order
C19_ReturnedLogIsChronological ==
  shown # <<>> =>
    \A i \in 1..Len(shown[1].logs) : \A j \in i..Len(shown[1].logs) :
      shown[1].logs[i].timestamp <= shown[1].logs[j].timestamp

\* C19 (as the code has it): the timeline rendered from the log fetchCase returns holds
\* one entry for each extraction run, each decision run and each review action of the
\* response and no other, in non-decreasing timestamp order
C19_TimelineIsChronological ==
  shown # <<>> =>
    LET timeline == AuditLogTimeline(shown[1].logs)
        Stamps(seq) == [i \in 1..Len(seq) |-> seq[i].timestamp]
        Created(seq) == [i \in 1..Len(seq) |-> seq[i].createdAt]
    IN /\ \A i \in 1..Len(timeline) : \A j \in i..Len(timeline) :
            timeline[i].timestamp <= timeline[j].timestamp
       /\ Stamps(SelectSeq(timeline, LAMBDA e : e.action = "EXTRACTION"))
            = Created(body.auditLog.extractionRuns)
       /\ Stamps(SelectSeq(timeline, LAMBDA e : e.action = "DECISION"))
            = Created(body.auditLog.decisionRuns)
       /\ Stamps(SelectSeq(timeline, LAMBDA e : e.actor = "REVIEWER"))
            = Created(body.auditLog.reviewActions)

\* a second extraction run later than the decision run: the returned log is out of order
C19_Witness ==
  /\ shown # <<>>
  /\ Len(body.auditLog.extractionRuns) = 2 /\ Len(body.auditLog.decisionRuns) = 1
  /\ Len(body.auditLog.reviewActions) = 1
  /\ body.auditLog.extractionRuns[2].createdAt > body.auditLog.decisionRuns[1].createdAt
  /\ AuditLogTimeline(shown[1].logs) # shown[1].logs

\* C20: a write that names an id no case carries is answered with a not-found error and
\* leaves the store as it was
C20_UnknownIdIsNotFound ==
  (last.op \in {"submitAdditionalInfo", "submitReviewerDecision"} /\ last.pre = "absent") =>
    /\ last.returned = "NotFound"
    /\ cases = last.before


(***************************************************************************)
(* The in-memory store under sequences of service calls.                   *)
(***************************************************************************)
\* C25: an additional-info upload with no file on a case in NEEDS_INFO leaves the case
\* in NEEDS_INFO
C25_EmptyUploadKeepsNeedsInfo ==
  (last.op = "submitAdditionalInfo" /\ last.nFiles = 0 /\ last.pre = "NEEDS_INFO")
    => StatusOf(cases, last.caseId) = "NEEDS_INFO"

\* C26: the document ids of the store are pairwise distinct, across all cases and
\* within each case
C26_DocumentIdsPairwiseDistinct ==
  \A i, j \in 1..Len(cases) :
    \A a \in 1..Len(cases[i].documents), b \in 1..Len(cases[j].documents) :
      cases[i].documents[a].id = cases[j].documents[b].id => (i = j /\ a = b)

C27_TimelineKeepsAppendOrder ==
  \A i \in 1..Len(cases) :
    AuditLogTimeline(cases[i].logs) = cases[i].logs

(***************************************************************************)
(* Reading the latest decision result.                                     *)
(***************************************************************************)
\* C21: the fetch of the latest decision result of a case that has none gives null and
\* raises no error, null is given for no case that has a result, and an error is raised
\* only when the fetch failed
C21_NoDecisionYetIsNullNotError ==
  shown # <<>> =>
    /\ (body.status = 404 /\ DecisionResultData(1) = Undefined)
         => (~shown[1].threw /\ shown[1].value = Undefined)
    /\ (body.status = 200)
         => (~shown[1].threw /\ shown[1].value = <<mapDecisionResult(DecisionResultData(1)[1])>>)
    /\ shown[1].threw => body.status \in {500, 503}

\* the case was read before any decision result was stored for it, while a run of it
\* was under way
C21_Witness ==
  /\ shown # <<>>
  /\ body.status = 404
  /\ decision_runs # <<>>
  /\ DecisionResultData(1) = Undefined
  /\ shown[1] = [threw |-> FALSE, value |-> Undefined]

(***************************************************************************)
(* Deleting a decision run.                                                *)
(***************************************************************************)
\* C23: after a decision run is deleted the ledger has as many review actions as
\* before, each with the fields it had, except that the actions that referenced the
\* deleted run now reference no run
C23_ReviewActionsSurviveRunDeletion ==
  resp.op = "deleteDecisionRun" =>
    /\ Len(review_actions) = Len(resp.before)
    /\ \A i \in 1..Len(resp.before) :
         /\ review_actions[i].request_id = resp.before[i].request_id
         /\ review_actions[i].action = resp.before[i].action
         /\ review_actions[i].comment = resp.before[i].comment
         /\ review_actions[i].decision_run_id =
              (IF resp.before[i].decision_run_id = resp.decision_run_id THEN NoRun
               ELSE resp.before[i].decision_run_id)
    /\ \A i \in 1..Len(review_actions) :
         review_actions[i].decision_run_id \in RunIds(decision_runs) \cup {NoRun}

\* a run that two review actions referenced was deleted, with its result
C23_Witness ==
  /\ resp.op = "deleteDecisionRun"
  /\ Len(resp.before) = 2
  /\ \A i \in 1..2 : resp.before[i].decision_run_id = resp.decision_run_id
  /\ resp.before[1].action = "approve" /\ resp.before[2].action = "override"
  /\ \A x \in decision_results : x.decision_run_id # resp.decision_run_id

(***************************************************************************)
(* The reviewer's action panel.                                            *)
(***************************************************************************)
\* C28: a mounted ReviewerActionPanel calls onAction at most once, and never when the
\* case was REVIEWED, APPROVED or DENIED when the panel was mounted
C28_OnActionAtMostOnce ==
  /\ Len(ui.onAction) <= 1
  /\ ui.mountedWith \in {"REVIEWED", "APPROVED", "DENIED"} => ui.onAction = <<>>
  /\ ui.onAction # <<>> => ui.confirmed

\* a request for information was confirmed with its comment; the case then shown is
\* NEEDS_INFO, a status that does not disable the buttons by itself
C28_Witness ==
  /\ ui.onAction = << <<"REQUEST_INFO", "need syllabus">> >>
  /\ ui.confirmed
  /\ ui.currentStatus = "NEEDS_INFO"
  /\ ui.mountedWith = "REVIEW_PENDING"

C30_NewCaseHasADocument ==
  \A i \in 1..Len(ui.sent) :
    ui.sent[i].op = "submitNewCase" =>
      /\ Len(ui.sent[i].files) >= 1
      /\ ui.sent[i].courseRequested \notin {"", " "}
      /\ ui.previousCourse \notin {"", " "}
      /\ ui.previousInstitution \notin {"", " "}

\* a case was submitted with the one file left after two were staged and one removed
C30_Witness ==
  /\ ui.page = "StudentNewCase"
  /\ ui.submitted
  /\ ui.picked = <<[stem |-> "syllabus", ext |-> "pdf"], [stem |-> "syllabus", ext |-> "PDF"]>>
  /\ Len(ui.sent) = 1
  /\ ui.sent[1].files = <<[stem |-> "syllabus", ext |-> "PDF"]>>

(***************************************************************************)
(* Whose cases a student session shows.                                    *)
(***************************************************************************)
\* C24: while a student is logged in, the dashboard shown lists only cases of that
\* student and the case page shown is of a case of that student
C24_StudentSeesOwnCasesOnly ==
  ui.user.role = "student" =>
    LET here == ui.history[ui.at]
    IN /\ here.route = "/student/:studentId" =>
            \A c \in getCasesByStudent(cases, here.studentId) :
              getCaseById(cases, c).student_id = ui.user.studentId
       /\ here.route = "/student/:studentId/case/:id" =>
            getCaseById(cases, here.id).student_id = ui.user.studentId

====
